---- MODULE Spec2Model ----
(***************************************************************************)
(* Client-side request governance of south-african-services:               *)
(*   src/src/lib/jwt.ts   JWTUtils (token decoding) and TokenStorage       *)
(*   src/src/lib/api.ts   ApiClient (single-flight refresh, request)       *)
(*   src/src/lib/security.ts  RateLimiter                                  *)
(*   src/unnamed/part_002 AuthProvider (login, logout)                     *)
(*                                                                         *)
(* JavaScript runs one task at a time.  An action of this module is the    *)
(* code that runs between two suspension points (await).  A continuation   *)
(* of a settled promise is a microtask: it runs before the next network    *)
(* response, timer or user event is delivered (MicrotaskPending).          *)
(***************************************************************************)
EXTENDS Integers, Sequences, FiniteSets, TLC

(* ------------------------------ bounds --------------------------------- *)
NumCallers == 2
MaxTicks == 2
MaxDispatch == 3

Callers == 1..NumCallers
\* Names of the refresh promises that exist at a time: each is awaited by a
\* caller, and one more can be created while they all are.
CycleIds == 1..(NumCallers + 1)
TickMs == 6 * 60 * 1000
MaxNow == MaxTicks * TickMs

(* ------------------------- program constants --------------------------- *)
\* api.ts:202  this.isTokenExpiringSoon(5)
RefreshThresholdMinutes == 5

(* ------------------------------ tokens --------------------------------- *)
\* JavaScript's undefined, for a payload without an exp claim.
Undefined == -1

\* localStorage.getItem of an absent key: null (jwt.ts:137-143).
NoToken == [segs |-> 0, b64 |-> FALSE, json |-> FALSE, exp |-> Undefined, typ |-> "none"]

\* What a token string looks like to decodeToken: the number of dot-separated
\* segments, whether the middle one is base64, whether it decodes to JSON,
\* and whether that JSON carries exp.
WellFormed == [segs |-> 3, b64 |-> TRUE, json |-> TRUE, hasExp |-> TRUE]

\* A token of that shape with these claims.  Two tokens with the same claims
\* are the same string.
MkToken(shape, exp, typ) ==
    [segs |-> shape.segs, b64 |-> shape.b64, json |-> shape.json,
     exp |-> IF shape.hasExp THEN exp ELSE Undefined, typ |-> typ]

\* jwt.ts:26-40  JWTUtils.decodeToken; ok = FALSE is the null result.
decodeToken(token) ==
    IF token.segs # 3 THEN [ok |-> FALSE, exp |-> Undefined]
    ELSE IF ~token.b64 THEN [ok |-> FALSE, exp |-> Undefined]
    ELSE IF ~token.json THEN [ok |-> FALSE, exp |-> Undefined]
    ELSE [ok |-> TRUE, exp |-> token.exp]

\* Math.floor(Date.now() / 1000)
NowSec(nowMs) == nowMs \div 1000

\* a < b on JavaScript numbers, where undefined converts to NaN and every
\* comparison with NaN is false.
JsLess(a, b) == a # Undefined /\ b # Undefined /\ a < b

\* Mutant: a token counts as expired from the second of its expiry on.
isTokenExpiredInclusive(token, nowMs) ==
    LET payload == decodeToken(token) IN
    IF ~payload.ok THEN TRUE
    ELSE payload.exp # Undefined /\ payload.exp <= NowSec(nowMs)

\* Mutant: a token that cannot be decoded counts as not expired.
isTokenExpiredFailOpen(token, nowMs) ==
    LET payload == decodeToken(token) IN
    IF ~payload.ok THEN FALSE ELSE JsLess(payload.exp, NowSec(nowMs))

\* jwt.ts:45-51  JWTUtils.isTokenExpired
isTokenExpired(token, nowMs) ==
    LET payload == decodeToken(token) IN
    IF ~payload.ok THEN TRUE ELSE JsLess(payload.exp, NowSec(nowMs))

\* Mutant: the threshold taken in milliseconds.
isTokenExpiringSoonMs(token, minutes, nowMs) ==
    LET payload == decodeToken(token) IN
    IF ~payload.ok THEN TRUE
    ELSE IF payload.exp = Undefined THEN FALSE
    ELSE (payload.exp - NowSec(nowMs)) < minutes * 60 * 1000

\* jwt.ts:56-65  JWTUtils.isTokenExpiringSoon
isTokenExpiringSoon(token, minutes, nowMs) ==
    LET payload == decodeToken(token) IN
    IF ~payload.ok THEN TRUE
    ELSE IF payload.exp = Undefined THEN FALSE
    ELSE (payload.exp - NowSec(nowMs)) < minutes * 60

\* spec.md section 4.3: the state of an access token, as the history of a
\* call records it: Missing, Valid, ExpiringSoon or Expired.
TokenState(token, nowMs) ==
    IF token = NoToken THEN "Missing"
    ELSE IF token.segs # 3 \/ ~token.b64 \/ ~token.json \/ token.exp = Undefined THEN "Expired"
    ELSE IF token.exp < NowSec(nowMs) THEN "Expired"
    ELSE IF token.exp - NowSec(nowMs) < RefreshThresholdMinutes * 60 THEN "ExpiringSoon"
    ELSE "Valid"

(* --------------------------- TokenStorage ------------------------------ *)
\* Number.prototype.toString of a non-negative integer: its decimal digits.
RECURSIVE NumToStr(_)
NumToStr(n) == IF n < 10 THEN <<n>> ELSE Append(NumToStr(n \div 10), n % 10)

\* parseInt(s, 10) of a digit string.
RECURSIVE ParseInt(_)
ParseInt(s) ==
    IF Len(s) = 0 THEN 0
    ELSE 10 * ParseInt(SubSeq(s, 1, Len(s) - 1)) + s[Len(s)]

\* The three localStorage keys of jwt.ts:125-127; an absent key reads as
\* NoToken (tokens) or the empty string (expiry).
EmptyStore == [access |-> NoToken, refresh |-> NoToken, expiry |-> <<>>]

\* Mutant: expires_in added to Date.now() as if it were milliseconds.
setTokensSeconds(accessToken, refreshToken, expiresIn, nowMs) ==
    [access |-> accessToken, refresh |-> refreshToken, expiry |-> NumToStr(nowMs + expiresIn)]

\* jwt.ts:129-135  TokenStorage.setTokens
setTokens(accessToken, refreshToken, expiresIn, nowMs) ==
    [access |-> accessToken, refresh |-> refreshToken,
     expiry |-> NumToStr(nowMs + expiresIn * 1000)]

\* Mutant: only the access token is removed.
clearTokensPartial(st) == [st EXCEPT !.access = NoToken]

\* Mutant: the expiry key is left behind.
clearTokensKeepExpiry(st) == [st EXCEPT !.access = NoToken, !.refresh = NoToken]

\* jwt.ts:150-154  TokenStorage.clearTokens
clearTokens(st) == [st EXCEPT !.access = NoToken, !.refresh = NoToken, !.expiry = <<>>]

\* jwt.ts:145-148  TokenStorage.getTokenExpiry; -1 is the null result.
getTokenExpiry(st) == IF st.expiry # <<>> THEN ParseInt(st.expiry) ELSE -1

\* jwt.ts:163-168  TokenStorage.isAccessTokenExpiringSoon
isAccessTokenExpiringSoon(st, minutes, nowMs) ==
    IF st.access = NoToken THEN TRUE
    ELSE isTokenExpiringSoon(st.access, minutes, nowMs)

(* ----------------------------- RateLimiter ----------------------------- *)
\* The identifiers isAllowed is called with.
Identifiers == {"a", "b"}

\* attempts.get(identifier) of an identifier without entry: undefined.
NoEntry == [count |-> 0, lastAttempt |-> 0, blocked |-> FALSE, windowStart |-> 0]

\* security.ts:152-156  new RateLimiter(maxAttempts, windowMs, blockDurationMs)
RateLimiter(maxAttempts, windowMs, blockDurationMs) ==
    [maxAttempts |-> maxAttempts, windowMs |-> windowMs, blockDurationMs |-> blockDurationMs,
     attempts |-> [i \in Identifiers |-> NoEntry]]

\* security.ts:213, 215
loginRateLimiter == RateLimiter(5, 15 * 60 * 1000, 30 * 60 * 1000)
contactRateLimiter == RateLimiter(3, 60 * 60 * 1000, 60 * 60 * 1000)
Limiters == {loginRateLimiter, contactRateLimiter}

\* Mutant: the attempt that reaches maxAttempts is denied already.
isAllowedOffByOne(rl, identifier, nowMs) ==
    LET entry == rl.attempts[identifier]
        put(e) == [rl EXCEPT !.attempts[identifier] = e]
    IN
    IF entry = NoEntry
    THEN [rl |-> put([count |-> 1, lastAttempt |-> nowMs, blocked |-> FALSE, windowStart |-> nowMs]),
          ret |-> TRUE]
    ELSE IF entry.blocked /\ (nowMs - entry.lastAttempt) < rl.blockDurationMs
    THEN [rl |-> rl, ret |-> FALSE]
    ELSE IF (nowMs - entry.lastAttempt) > rl.windowMs
    THEN [rl |-> put([count |-> 1, lastAttempt |-> nowMs, blocked |-> FALSE, windowStart |-> nowMs]),
          ret |-> TRUE]
    ELSE LET counted == [entry EXCEPT !.count = @ + 1, !.lastAttempt = nowMs] IN
         IF counted.count >= rl.maxAttempts
         THEN [rl |-> put([counted EXCEPT !.blocked = TRUE]), ret |-> FALSE]
         ELSE [rl |-> put(counted), ret |-> TRUE]

\* Mutant: the first attempt of an identifier starts a new map of attempts.
isAllowedClearsOthers(rl, identifier, nowMs) ==
    LET entry == rl.attempts[identifier]
        put(e) == [rl EXCEPT !.attempts[identifier] = e]
    IN
    IF entry = NoEntry
    THEN [rl |-> [rl EXCEPT !.attempts =
                     [i \in Identifiers |->
                        IF i = identifier
                        THEN [count |-> 1, lastAttempt |-> nowMs, blocked |-> FALSE, windowStart |-> nowMs]
                        ELSE NoEntry]],
          ret |-> TRUE]
    ELSE IF entry.blocked /\ (nowMs - entry.lastAttempt) < rl.blockDurationMs
    THEN [rl |-> rl, ret |-> FALSE]
    ELSE IF (nowMs - entry.lastAttempt) > rl.windowMs
    THEN [rl |-> put([count |-> 1, lastAttempt |-> nowMs, blocked |-> FALSE, windowStart |-> nowMs]),
          ret |-> TRUE]
    ELSE LET counted == [entry EXCEPT !.count = @ + 1, !.lastAttempt = nowMs] IN
         IF counted.count > rl.maxAttempts
         THEN [rl |-> put([counted EXCEPT !.blocked = TRUE]), ret |-> FALSE]
         ELSE [rl |-> put(counted), ret |-> TRUE]

\* Mutant: the reset starts the count over but leaves blocked as it is.
isAllowedResetKeepsBlocked(rl, identifier, nowMs) ==
    LET entry == rl.attempts[identifier]
        put(e) == [rl EXCEPT !.attempts[identifier] = e]
    IN
    IF entry = NoEntry
    THEN [rl |-> put([count |-> 1, lastAttempt |-> nowMs, blocked |-> FALSE, windowStart |-> nowMs]),
          ret |-> TRUE]
    ELSE IF entry.blocked /\ (nowMs - entry.lastAttempt) < rl.blockDurationMs
    THEN [rl |-> rl, ret |-> FALSE]
    ELSE IF (nowMs - entry.lastAttempt) > rl.windowMs
    THEN [rl |-> put([count |-> 1, lastAttempt |-> nowMs, blocked |-> entry.blocked,
                      windowStart |-> nowMs]),
          ret |-> TRUE]
    ELSE LET counted == [entry EXCEPT !.count = @ + 1, !.lastAttempt = nowMs] IN
         IF counted.count > rl.maxAttempts
         THEN [rl |-> put([counted EXCEPT !.blocked = TRUE]), ret |-> FALSE]
         ELSE [rl |-> put(counted), ret |-> TRUE]

\* Mutant: an attempt denied during the block counts as the last attempt.
isAllowedExtendsBlock(rl, identifier, nowMs) ==
    LET entry == rl.attempts[identifier]
        put(e) == [rl EXCEPT !.attempts[identifier] = e]
    IN
    IF entry = NoEntry
    THEN [rl |-> put([count |-> 1, lastAttempt |-> nowMs, blocked |-> FALSE, windowStart |-> nowMs]),
          ret |-> TRUE]
    ELSE IF entry.blocked /\ (nowMs - entry.lastAttempt) < rl.blockDurationMs
    THEN [rl |-> put([entry EXCEPT !.lastAttempt = nowMs]), ret |-> FALSE]
    ELSE IF (nowMs - entry.lastAttempt) > rl.windowMs
    THEN [rl |-> put([count |-> 1, lastAttempt |-> nowMs, blocked |-> FALSE, windowStart |-> nowMs]),
          ret |-> TRUE]
    ELSE LET counted == [entry EXCEPT !.count = @ + 1, !.lastAttempt = nowMs] IN
         IF counted.count > rl.maxAttempts
         THEN [rl |-> put([counted EXCEPT !.blocked = TRUE]), ret |-> FALSE]
         ELSE [rl |-> put(counted), ret |-> TRUE]

\* security.ts:161-198  RateLimiter.isAllowed: the limiter after the call
\* and the value returned.  windowStart is not a field of the code's entry:
\* it records the time of the attempt that created or reset the entry.
isAllowed(rl, identifier, nowMs) ==
    LET entry == rl.attempts[identifier]
        put(e) == [rl EXCEPT !.attempts[identifier] = e]
    IN
    IF entry = NoEntry
    THEN [rl |-> put([count |-> 1, lastAttempt |-> nowMs, blocked |-> FALSE, windowStart |-> nowMs]),
          ret |-> TRUE]
    ELSE IF entry.blocked /\ (nowMs - entry.lastAttempt) < rl.blockDurationMs
    THEN [rl |-> rl, ret |-> FALSE]
    ELSE IF (nowMs - entry.lastAttempt) > rl.windowMs
    THEN [rl |-> put([count |-> 1, lastAttempt |-> nowMs, blocked |-> FALSE, windowStart |-> nowMs]),
          ret |-> TRUE]
    ELSE LET counted == [entry EXCEPT !.count = @ + 1, !.lastAttempt = nowMs] IN
         IF counted.count > rl.maxAttempts
         THEN [rl |-> put([counted EXCEPT !.blocked = TRUE]), ret |-> FALSE]
         ELSE [rl |-> put(counted), ret |-> TRUE]

\* Math.ceil(a / b) for b > 0.
Ceil(a, b) == -((-a) \div b)

\* Mutant: the remaining minutes rounded down.
getBlockedTimeRemainingFloor(rl, identifier, nowMs) ==
    LET entry == rl.attempts[identifier] IN
    IF entry = NoEntry \/ ~entry.blocked THEN 0
    ELSE LET remainingMs == rl.blockDurationMs - (nowMs - entry.lastAttempt) IN
         remainingMs \div (60 * 1000)

\* security.ts:203-209  RateLimiter.getBlockedTimeRemaining
getBlockedTimeRemaining(rl, identifier, nowMs) ==
    LET entry == rl.attempts[identifier] IN
    IF entry = NoEntry \/ ~entry.blocked THEN 0
    ELSE LET remainingMs == rl.blockDurationMs - (nowMs - entry.lastAttempt) IN
         Ceil(remainingMs, 60 * 1000)

(* ------------------------------ server --------------------------------- *)
\* What the server may put into a login or refresh response: the shape of
\* the two tokens, their lifetimes in seconds and expires_in.
IssueProfiles ==
    { [aShape |-> WellFormed, aLife |-> 600, rShape |-> WellFormed, rLife |-> 700, expiresIn |-> 600],
      [aShape |-> WellFormed, aLife |-> 120, rShape |-> WellFormed, rLife |-> 760, expiresIn |-> 120] }

\* The data of a successful login or refresh response (spec.md section 6).
Issue(pr, nowMs) ==
    [access |-> MkToken(pr.aShape, NowSec(nowMs) + pr.aLife, "access"),
     refresh |-> MkToken(pr.rShape, NowSec(nowMs) + pr.rLife, "refresh"),
     expiresIn |-> pr.expiresIn]

\* The response of a server whose clock is 16 minutes behind the client's:
\* its access token, issued for 15 minutes, is expired on the client's clock
\* when it arrives.
SkewedProfile ==
    [aShape |-> WellFormed, aLife |-> -60, rShape |-> WellFormed, rLife |-> 700, expiresIn |-> 900]

\* Ways the call of the refresh endpoint fails (api.ts:153-182).
RefreshFailures == {"transport", "status", "notJson", "unsuccessful"}

\* HTTP statuses of a response to a dispatched request.
Statuses == {200, 401, 500}

\* A success, the status of the refresh-and-retry branch, and statuses with
\* and without a message of their own in api.ts:272-301.
BodyStatuses == {200, 401, 404, 500, 418}

\* More of them, for one call at a time.
AllStatuses == {200, 201, 301, 400, 401, 403, 404, 409, 418, 422, 429, 500, 501, 502, 503, 504, 520}

\* The body of a response: JSON with or without the fields message and
\* error (an absent field and an empty string are both falsy: ""), or
\* something response.json() rejects.
JsonBody(message, error) == [parsed |-> TRUE, message |-> message, error |-> error]
NotJson == [parsed |-> FALSE, message |-> "", error |-> ""]
PlainBody == JsonBody("", "")
Bodies ==
    { JsonBody(m, e) : m \in {"", "Email already registered"}, e \in {"", "EMAIL_TAKEN"} }
        \cup {NotJson}

\* What fetch rejects with: a TypeError, whose message depends on the
\* browser, or the AbortError of an aborted request.
FailedToFetch == [name |-> "TypeError", message |-> "Failed to fetch"]
FetchErrors ==
    { FailedToFetch,
      [name |-> "TypeError", message |-> "NetworkError when attempting to fetch resource."],
      [name |-> "TypeError", message |-> "Load failed"],
      [name |-> "AbortError", message |-> "The operation was aborted."] }

(* ------------------------------- state --------------------------------- *)
VARIABLES
    now,            \* Date.now(), milliseconds
    store,          \* localStorage: the three token keys
    refreshPromise, \* ApiClient.refreshPromise: 0 (null) or a refresh cycle
    promises,       \* the promise of each refresh cycle
    netRefresh,     \* cycles whose POST /auth/refresh is outstanding
    pc,             \* per call of request: idle, awaitRefresh, fetch, done
    endpoint,       \* per call: "api" or "login"
    site,           \* per call: where it awaits the refresh: proactive, retry
    awaiting,       \* per call: the refresh cycle it awaits (0: none)
    trace,          \* per call: what happened so far
    result,         \* per call: how it settled
    bearer,         \* per call: the bearer token of the dispatch under way
    tokenExpired,   \* per call: the tokenExpired events it has dispatched
    rateLimiter,    \* the RateLimiter in use: its parameters and its attempts
    call,           \* the library call made last, with its arguments
    ret             \* what that call returned

\* The state of the library functions called outside ApiClient.request.
libVars == <<rateLimiter, call, ret>>

vars == <<now, store, refreshPromise, promises, netRefresh,
          pc, endpoint, site, awaiting, trace, result, bearer, tokenExpired, libVars>>

\* No library call has been made.
NoCall == [fn |-> "none"]
LibIdle == rateLimiter = loginRateLimiter /\ call = NoCall /\ ret = 0

\* A promise that does not exist (not yet created, or no longer referenced).
NoPromise == [state |-> "none", value |-> NoToken, net |-> 0, owner |-> 0]

InitStores ==
    {EmptyStore} \cup
    { setTokens(Issue(pr, 0).access, Issue(pr, 0).refresh, pr.expiresIn, 0) : pr \in IssueProfiles }

\* ApiClient and the AuthProvider at rest: nobody is logged in, no call of
\* request is under way.
callVars == <<refreshPromise, promises, netRefresh,
              pc, endpoint, site, awaiting, trace, result, bearer, tokenExpired>>
apiVars == <<store, callVars>>

CallsIdle ==
    /\ refreshPromise = 0
    /\ promises = [k \in CycleIds |-> NoPromise]
    /\ netRefresh = {}
    /\ pc = [c \in Callers |-> "idle"]
    /\ endpoint = [c \in Callers |-> "api"]
    /\ site = [c \in Callers |-> "none"]
    /\ awaiting = [c \in Callers |-> 0]
    /\ trace = [c \in Callers |-> <<>>]
    /\ result = [c \in Callers |-> "none"]
    /\ bearer = [c \in Callers |-> NoToken]
    /\ tokenExpired = [c \in Callers |-> 0]

ApiIdle == store = EmptyStore /\ CallsIdle

Init ==
    /\ now = 0
    /\ store \in InitStores
    /\ refreshPromise = 0
    /\ promises = [k \in CycleIds |-> NoPromise]
    /\ netRefresh = {}
    /\ pc = [c \in Callers |-> "idle"]
    /\ endpoint = [c \in Callers |-> "api"]
    /\ site = [c \in Callers |-> "none"]
    /\ awaiting = [c \in Callers |-> 0]
    /\ trace = [c \in Callers |-> <<>>]
    /\ result = [c \in Callers |-> "none"]
    /\ bearer = [c \in Callers |-> NoToken]
    /\ tokenExpired = [c \in Callers |-> 0]
    /\ LibIdle


\* The state the synchronous code of ApiClient reads and writes.
Shared == [store |-> store, marker |-> refreshPromise, promises |-> promises, net |-> netRefresh]

\* The calls whose history is recorded in trace; the other callers run the
\* same code unrecorded.
Observed == {1}
Log(c, events) == IF c \in Observed THEN events ELSE <<>>
LogToken(c, token) == IF c \in Observed THEN token ELSE NoToken

Count(s, e) == Cardinality({i \in 1..Len(s) : s[i] = e})

\* A continuation of a settled refresh promise is queued.
MicrotaskPending ==
    \E c \in Callers : pc[c] = "awaitRefresh" /\ promises[awaiting[c]].state \in {"fulfilled", "rejected"}

\* The name of a new promise: the first that is not in use.
FreeCycle(ps) == CHOOSE k \in CycleIds : ps[k].state = "none" /\ \A j \in 1..(k - 1) : ps[j].state # "none"

(* ------------------------------ ApiClient ------------------------------ *)
\* Mutant: performTokenRefresh without the expiry check of api.ts:148-151.
performTokenRefreshStartNoExpiry(st, nowMs) ==
    LET refreshToken == st.refresh IN
    IF refreshToken = NoToken THEN [store |-> st, net |-> FALSE]
    ELSE [store |-> st, net |-> TRUE]

\* api.ts:141-160  performTokenRefresh up to its first await: either it
\* throws (net = FALSE) or POST /auth/refresh is sent with the refresh token.
performTokenRefreshStart(st, nowMs) ==
    LET refreshToken == st.refresh IN
    IF refreshToken = NoToken THEN [store |-> st, net |-> FALSE]
    ELSE IF isTokenExpired(refreshToken, nowMs) THEN [store |-> clearTokens(st), net |-> FALSE]
    ELSE [store |-> st, net |-> TRUE]

\* api.ts:131  this.refreshPromise = this.performTokenRefresh(), called by
\* c: a new promise, rejected at once or pending on POST /auth/refresh.
startRefresh(sh, c, nowMs) ==
    LET k == FreeCycle(sh.promises)
        p == performTokenRefreshStart(sh.store, nowMs)
    IN [sh |-> [store |-> p.store,
                marker |-> k,
                promises |-> [sh.promises EXCEPT ![k] =
                                [state |-> IF p.net THEN "pending" ELSE "rejected",
                                 value |-> NoToken,
                                 net |-> IF p.net THEN 1 ELSE 0,
                                 owner |-> c]],
                net |-> IF p.net THEN sh.net \cup {k} ELSE sh.net],
        cycle |-> k,
        ev |-> IF p.net THEN "start" ELSE "startfail"]

\* Mutant: refreshAccessToken without the early return of api.ts:127-129.
refreshAccessTokenNoJoin(sh, c, nowMs) == startRefresh(sh, c, nowMs)

\* Mutant: refreshAccessToken that does not keep the promise it starts.
refreshAccessTokenUnmarked(sh, c, nowMs) ==
    IF sh.marker # 0
    THEN [sh |-> sh, cycle |-> sh.marker, ev |-> "join"]
    ELSE LET r == startRefresh(sh, c, nowMs) IN [r EXCEPT !.sh.marker = 0]

\* api.ts:125-134  refreshAccessToken up to its await, called by c: it joins
\* the refresh in flight, or starts one and sets refreshPromise.
refreshAccessToken(sh, c, nowMs) ==
    IF sh.marker # 0
    THEN [sh |-> sh, cycle |-> sh.marker, ev |-> "join"]
    ELSE startRefresh(sh, c, nowMs)

\* Mutant: refreshPromise nulled after the await instead of in a finally.
refreshSettledOnSuccess(marker, p, c) == IF p.owner = c /\ p.state = "fulfilled" THEN 0 ELSE marker

\* api.ts:136-138  the finally of refreshAccessToken, run by c when the
\* promise p it awaits has settled: only the caller that started the refresh
\* got past the early return, so only it nulls refreshPromise.
refreshSettled(marker, p, c) == IF p.owner = c THEN 0 ELSE marker

\* Mutant: request without the test of api.ts:200: a missing token is
\* refreshed like an expiring one.
acquireRefreshMissing(sh, c, optAuth, nowMs) ==
    LET accessToken == sh.store.access
        seen == TokenState(accessToken, nowMs)
    IN
    IF isAccessTokenExpiringSoon(sh.store, RefreshThresholdMinutes, nowMs)
    THEN LET r == refreshAccessToken(sh, c, nowMs) IN
         [sh |-> r.sh, next |-> "awaitRefresh", bearer |-> NoToken, cycle |-> r.cycle, ev |-> r.ev, seen |-> seen]
    ELSE [sh |-> sh, next |-> "fetch", bearer |-> accessToken, cycle |-> 0, ev |-> "valid", seen |-> seen]

\* Mutant: request without the test of api.ts:202: the stored token is
\* attached as it is.
acquireUnchecked(sh, c, optAuth, nowMs) ==
    LET accessToken == sh.store.access
        seen == TokenState(accessToken, nowMs)
    IN
    IF accessToken = NoToken
    THEN [sh |-> sh, next |-> "fetch", bearer |-> optAuth, cycle |-> 0, ev |-> "missing", seen |-> seen]
    ELSE [sh |-> sh, next |-> "fetch", bearer |-> accessToken, cycle |-> 0, ev |-> "valid", seen |-> seen]

\* api.ts:196-215  request: the token acquisition before the dispatch.
\* optAuth is the Authorization header of options.headers (NoToken: none);
\* seen is the state of the stored access token, for the history.
acquire(sh, c, optAuth, nowMs) ==
    LET accessToken == sh.store.access
        seen == TokenState(accessToken, nowMs)
    IN
    IF accessToken = NoToken
    THEN [sh |-> sh, next |-> "fetch", bearer |-> optAuth, cycle |-> 0, ev |-> "missing", seen |-> seen]
    ELSE IF isAccessTokenExpiringSoon(sh.store, RefreshThresholdMinutes, nowMs)
    THEN LET r == refreshAccessToken(sh, c, nowMs) IN
         [sh |-> r.sh, next |-> "awaitRefresh", bearer |-> NoToken, cycle |-> r.cycle, ev |-> r.ev, seen |-> seen]
    ELSE [sh |-> sh, next |-> "fetch", bearer |-> accessToken, cycle |-> 0, ev |-> "valid", seen |-> seen]

\* Writes the shared state back; aw is who awaits which promise from now on.
\* A promise that nobody awaits any more is gone.
Commit(sh, aw) ==
    /\ store' = sh.store
    /\ refreshPromise' = sh.marker
    /\ netRefresh' = sh.net
    /\ awaiting' = aw
    /\ promises' = [k \in CycleIds |->
                      IF \E c \in Callers : aw[c] = k THEN sh.promises[k] ELSE NoPromise]

\* The call of c goes on after acquire: it dispatches or awaits the refresh.
Proceed(c, a, events) ==
    /\ Commit(a.sh, [awaiting EXCEPT ![c] = a.cycle])
    /\ pc' = [pc EXCEPT ![c] = a.next]
    /\ bearer' = [bearer EXCEPT ![c] = LogToken(c, a.bearer)]
    /\ site' = [site EXCEPT ![c] = IF a.next = "awaitRefresh" THEN "proactive" ELSE "none"]
    /\ UNCHANGED tokenExpired
    /\ trace' = [trace EXCEPT ![c] =
                   Log(c, IF a.next = "fetch" THEN events \o <<a.seen, a.ev, "send">>
                                              ELSE events \o <<a.seen, a.ev>>)]

\* api.ts:185-221  a caller invokes request (api.ts:327-337 for login).
Begin(c, ep) ==
    /\ pc[c] = "idle"
    /\ Proceed(c, acquire(Shared, c, NoToken, now), <<>>)
    /\ endpoint' = [endpoint EXCEPT ![c] = ep]
    /\ UNCHANGED <<now, result, libVars>>

\* Mutant: the error of the refresh is swallowed and the call is dispatched
\* without a token.
SessionExpiredGoesOn(c, sh, events) ==
    /\ Commit([sh EXCEPT !.store = clearTokens(sh.store)], [awaiting EXCEPT ![c] = 0])
    /\ pc' = [pc EXCEPT ![c] = "fetch"]
    /\ trace' = [trace EXCEPT ![c] = Log(c, events \o <<"send">>)]
    /\ bearer' = [bearer EXCEPT ![c] = NoToken]
    /\ site' = [site EXCEPT ![c] = "none"]
    /\ UNCHANGED <<result, tokenExpired>>

\* Mutant: the session-expired error is thrown without the dispatchEvent.
SessionExpiredSilent(c, sh, events) ==
    /\ Commit([sh EXCEPT !.store = clearTokens(sh.store)], [awaiting EXCEPT ![c] = 0])
    /\ pc' = [pc EXCEPT ![c] = "done"]
    /\ result' = [result EXCEPT ![c] = "SessionExpired"]
    /\ trace' = [trace EXCEPT ![c] = Log(c, events \o <<"expired">>)]
    /\ bearer' = [bearer EXCEPT ![c] = NoToken]
    /\ site' = [site EXCEPT ![c] = "none"]
    /\ UNCHANGED tokenExpired

\* api.ts:206-210, 254-257, 261-264: the session has expired: the tokens
\* are removed, tokenExpired is dispatched, the call throws.
SessionExpired(c, sh, events) ==
    /\ Commit([sh EXCEPT !.store = clearTokens(sh.store)], [awaiting EXCEPT ![c] = 0])
    /\ pc' = [pc EXCEPT ![c] = "done"]
    /\ result' = [result EXCEPT ![c] = "SessionExpired"]
    /\ trace' = [trace EXCEPT ![c] = Log(c, events \o <<"expired">>)]
    /\ bearer' = [bearer EXCEPT ![c] = NoToken]
    /\ site' = [site EXCEPT ![c] = "none"]
    /\ tokenExpired' = [tokenExpired EXCEPT ![c] = @ + 1]

\* Mutant: only the new access token is stored.
RefreshSucceedsAccessOnly(k, pr) ==
    /\ k \in netRefresh
    /\ ~MicrotaskPending
    /\ LET data == Issue(pr, now) IN
       /\ store' = [store EXCEPT !.access = data.access]
       /\ promises' = [promises EXCEPT ![k].state = "fulfilled", ![k].value = data.access]
    /\ netRefresh' = netRefresh \ {k}
    /\ UNCHANGED <<now, refreshPromise, pc, endpoint, site, awaiting, trace, result, bearer,
                   tokenExpired, libVars>>

\* api.ts:162-177  the call of the refresh endpoint comes back with a new
\* token pair: setTokens, and the promise is fulfilled with the access token.
RefreshSucceeds(k, pr) ==
    /\ k \in netRefresh
    /\ ~MicrotaskPending
    /\ LET data == Issue(pr, now) IN
       /\ store' = setTokens(data.access, data.refresh, data.expiresIn, now)
       /\ promises' = [promises EXCEPT ![k].state = "fulfilled", ![k].value = data.access]
    /\ netRefresh' = netRefresh \ {k}
    /\ UNCHANGED <<now, refreshPromise, pc, endpoint, site, awaiting, trace, result, bearer,
                   tokenExpired, libVars>>

\* Mutant: the catch of performTokenRefresh rethrows without clearTokens.
RefreshFailsKeep(k, why) ==
    /\ k \in netRefresh
    /\ ~MicrotaskPending
    /\ why \in RefreshFailures
    /\ promises' = [promises EXCEPT ![k].state = "rejected"]
    /\ netRefresh' = netRefresh \ {k}
    /\ UNCHANGED <<now, store, refreshPromise, pc, endpoint, site, awaiting, trace, result, bearer,
                   tokenExpired, libVars>>

\* api.ts:153-164, 175-182  the call of the refresh endpoint fails: the catch
\* clears the tokens and the promise is rejected.
RefreshFails(k, why) ==
    /\ k \in netRefresh
    /\ ~MicrotaskPending
    /\ why \in RefreshFailures
    /\ store' = clearTokens(store)
    /\ promises' = [promises EXCEPT ![k].state = "rejected"]
    /\ netRefresh' = netRefresh \ {k}
    /\ UNCHANGED <<now, refreshPromise, pc, endpoint, site, awaiting, trace, result, bearer,
                   tokenExpired, libVars>>

\* api.ts:134-138 and 204-214, 243-258: the refresh promise c awaits has
\* settled.  The caller that started the refresh runs the finally, which
\* nulls refreshPromise, before the continuation of any caller that joined.
Resume(c) ==
    /\ pc[c] = "awaitRefresh"
    /\ LET k == awaiting[c]
           p == promises[k]
           sh == [Shared EXCEPT !.marker = refreshSettled(refreshPromise, p, c)]
       IN /\ p.state \in {"fulfilled", "rejected"}
          /\ p.owner = c \/ refreshPromise # k
          /\ IF p.state = "rejected"
             THEN SessionExpired(c, sh, trace[c] \o <<"refreshfailed">>)
             ELSE IF site[c] = "proactive"
             THEN /\ Commit(sh, [awaiting EXCEPT ![c] = 0])
                  /\ pc' = [pc EXCEPT ![c] = "fetch"]
                  /\ bearer' = [bearer EXCEPT ![c] = LogToken(c, p.value)]
                  /\ site' = [site EXCEPT ![c] = "none"]
                  /\ trace' = [trace EXCEPT ![c] = Log(c, @ \o <<"refreshed", "send">>)]
                  /\ UNCHANGED <<result, tokenExpired>>
             ELSE /\ Proceed(c, acquire(sh, c, p.value, now), trace[c] \o <<"refreshed">>)
                  /\ UNCHANGED result
    /\ UNCHANGED <<now, endpoint, libVars>>

\* response.ok
Ok(status) == status >= 200 /\ status <= 299

\* Mutant: a body that is not JSON leaves data without message and error.
parseBodyEmpty(status, body) == body

\* api.ts:223-234  data: the parsed body, or the error response made up for
\* a body that is not JSON.
parseBody(status, body) ==
    IF body.parsed THEN body
    ELSE [parsed |-> FALSE,
          message |-> "Server error (" \o ToString(status) \o ")",
          error |-> "HTTP " \o ToString(status) \o ": "]

\* api.ts:272-301  the message for a status, when the response has none.
statusMessage(status) ==
    CASE status = 400 -> "Invalid request. Please check your input and try again."
      [] status = 403 -> "Access denied. You do not have permission to perform this action."
      [] status = 404 -> "The requested resource was not found."
      [] status = 409 -> "A conflict occurred. This email may already be registered."
      [] status = 422 -> "Validation failed. Please check your input and try again."
      [] status = 429 -> "Too many requests. Please wait a moment and try again."
      [] status = 500 -> "Server error. Please try again later."
      [] status \in {502, 503, 504} -> "Service temporarily unavailable. Please try again later."
      [] OTHER -> "Request failed with status " \o ToString(status)

\* api.ts:269-304  the error thrown for a status that is not ok and not 401.
httpError(status, data) ==
    LET errorMessage == IF data.message # "" THEN data.message ELSE data.error IN
    [name |-> "Error",
     message |-> IF errorMessage # "" THEN errorMessage ELSE statusMessage(status)]

\* String.prototype.includes
Includes(str, word) ==
    \E i \in 1..(Len(str) - Len(word) + 1) : SubSeq(str, i, i + Len(word) - 1) = word

NetworkErrorMessage == "Network error. Please check your internet connection and try again."
TimeoutMessage == "Request timed out. Please try again."

\* api.ts:308-323  the catch around the dispatch: the message of the error
\* request throws for an error caught there.
rethrow(error) ==
    IF error.name = "TypeError" /\ Includes(error.message, "fetch") THEN NetworkErrorMessage
    ELSE IF error.name = "AbortError" THEN TimeoutMessage
    ELSE error.message

\* The entry of the history for a response: its status, and what its body
\* is unless it is JSON without message and error.
ResponseEvent(status, body) ==
    "r" \o ToString(status) \o
        (IF body = PlainBody THEN ""
         ELSE IF ~body.parsed THEN " not JSON"
         ELSE " message: " \o body.message \o " error: " \o body.error)

\* The call of c has settled.
Settle(c, how, ev) ==
    /\ pc' = [pc EXCEPT ![c] = "done"]
    /\ result' = [result EXCEPT ![c] = how]
    /\ trace' = [trace EXCEPT ![c] = Log(c, @ \o <<ev>>)]
    /\ bearer' = [bearer EXCEPT ![c] = NoToken]
    /\ UNCHANGED tokenExpired

\* api.ts:308-323  fetch throws: no response.
FetchFails(c, error) ==
    /\ pc[c] = "fetch"
    /\ ~MicrotaskPending
    /\ Settle(c, rethrow(error), "neterr")
    /\ UNCHANGED <<now, store, refreshPromise, promises, netRefresh,
                   endpoint, site, awaiting, libVars>>

\* api.ts:223-307  a response with a status other than 401.  A successful
\* login goes on in AuthProvider.login (part_002:193-207): setTokens.
Responded(c, status, body) ==
    /\ pc[c] = "fetch"
    /\ ~MicrotaskPending
    /\ status # 401
    /\ IF Ok(status)
       THEN /\ Settle(c, "Success", ResponseEvent(status, body))
            /\ IF endpoint[c] = "login"
               THEN \E pr \in IssueProfiles :
                         LET data == Issue(pr, now) IN
                         store' = setTokens(data.access, data.refresh, data.expiresIn, now)
               ELSE UNCHANGED store
       ELSE /\ Settle(c, rethrow(httpError(status, parseBody(status, body))),
                      ResponseEvent(status, body))
            /\ UNCHANGED store
    /\ UNCHANGED <<now, refreshPromise, promises, netRefresh, endpoint, site, awaiting>>

FetchResponse(c, status, body) == Responded(c, status, body) /\ UNCHANGED libVars

\* Mutant: the 401 branch without the test of api.ts:241: the refresh is
\* tried whatever the stored refresh token is.
Fetch401Unconditional(c) ==
    /\ pc[c] = "fetch"
    /\ ~MicrotaskPending
    /\ LET events == trace[c] \o <<"r401">>
           r == refreshAccessToken(Shared, c, now)
       IN /\ Count(trace[c], "send") < MaxDispatch
          /\ Commit(r.sh, [awaiting EXCEPT ![c] = r.cycle])
          /\ pc' = [pc EXCEPT ![c] = "awaitRefresh"]
          /\ site' = [site EXCEPT ![c] = "retry"]
          /\ trace' = [trace EXCEPT ![c] = Log(c, events \o <<r.ev>>)]
          /\ bearer' = [bearer EXCEPT ![c] = NoToken]
          /\ UNCHANGED <<result, tokenExpired>>
    /\ UNCHANGED <<now, endpoint, libVars>>

\* api.ts:238-266  a 401 response: refresh and retry, or the session ends.
\* The branch is taken after the body was read (api.ts:223-234) and uses
\* nothing of it.
Unauthorized(c) ==
    /\ pc[c] = "fetch"
    /\ ~MicrotaskPending
    /\ LET refreshToken == store.refresh
           events == trace[c] \o <<"r401">>
       IN IF refreshToken # NoToken /\ ~isTokenExpired(refreshToken, now)
          THEN LET r == refreshAccessToken(Shared, c, now) IN
               /\ Count(trace[c], "send") < MaxDispatch
               /\ Commit(r.sh, [awaiting EXCEPT ![c] = r.cycle])
               /\ pc' = [pc EXCEPT ![c] = "awaitRefresh"]
               /\ site' = [site EXCEPT ![c] = "retry"]
               /\ trace' = [trace EXCEPT ![c] = Log(c, events \o <<r.ev>>)]
               /\ bearer' = [bearer EXCEPT ![c] = NoToken]
               /\ UNCHANGED <<result, tokenExpired>>
          ELSE SessionExpired(c, Shared, events)
    /\ UNCHANGED <<now, endpoint>>

Fetch401(c) == Unauthorized(c) /\ UNCHANGED libVars

\* part_002:255-259  AuthProvider.logout
logout ==
    /\ ~MicrotaskPending
    /\ store' = clearTokens(store)
    /\ UNCHANGED <<now, refreshPromise, promises, netRefresh,
                   pc, endpoint, site, awaiting, trace, result, bearer, tokenExpired>>

Logout == logout /\ UNCHANGED libVars

\* The wall clock advances.
Tick ==
    /\ ~MicrotaskPending
    /\ now + TickMs <= MaxNow
    /\ now' = now + TickMs
    /\ UNCHANGED <<store, refreshPromise, promises, netRefresh,
                   pc, endpoint, site, awaiting, trace, result, bearer, tokenExpired, libVars>>

\* The caller has taken the result of its call.
Return(c) ==
    /\ pc[c] = "done"
    /\ pc' = [pc EXCEPT ![c] = "idle"]
    /\ endpoint' = [endpoint EXCEPT ![c] = "api"]
    /\ trace' = [trace EXCEPT ![c] = <<>>]
    /\ result' = [result EXCEPT ![c] = "none"]
    /\ tokenExpired' = [tokenExpired EXCEPT ![c] = 0]
    /\ UNCHANGED <<now, store, refreshPromise, promises, netRefresh,
                   site, awaiting, bearer, libVars>>

Next ==
    \/ \E c \in Callers, ep \in {"api", "login"} : Begin(c, ep)
    \/ \E k \in CycleIds, pr \in IssueProfiles : RefreshSucceeds(k, pr)
    \/ \E k \in CycleIds, why \in RefreshFailures : RefreshFails(k, why)
    \/ \E c \in Callers : Resume(c)
    \/ \E c \in Callers : FetchFails(c, FailedToFetch)
    \/ \E c \in Callers, status \in Statuses : FetchResponse(c, status, PlainBody)
    \/ \E c \in Callers : Fetch401(c)
    \/ \E c \in Callers : Return(c)
    \/ Logout
    \/ Tick

Spec == Init /\ [][Next]_vars

\* One call at a time, against every response of the server and every
\* failure of the transport above, and a server whose clock may be behind
\* the client's.
NextOne ==
    \/ \E ep \in {"api", "login"} : Begin(1, ep)
    \/ \E k \in CycleIds, pr \in IssueProfiles \cup {SkewedProfile} : RefreshSucceeds(k, pr)
    \/ \E k \in CycleIds, why \in RefreshFailures : RefreshFails(k, why)
    \/ Resume(1)
    \/ \E error \in FetchErrors : FetchFails(1, error)
    \/ \E status \in AllStatuses, body \in Bodies : FetchResponse(1, status, body)
    \/ Fetch401(1)
    \/ Return(1)
    \/ Logout
    \/ Tick

SpecOne == Init /\ [][NextOne]_vars

(* ---------------------- responses and their bodies --------------------- *)
\* One call at a time, where the response is recorded with the body it
\* carries, whatever its status, and with the response before it.
\* api.ts:218-234  the response has arrived and its body has been read.
ResponseArrives(c, status, body) ==
    /\ IF status = 401 THEN Unauthorized(c) ELSE Responded(c, status, body)
    /\ call' = [fn |-> "response", status |-> status, body |-> body,
                prev |-> IF call.fn = "response"
                         THEN [status |-> call.status, body |-> call.body]
                         ELSE [status |-> 0, body |-> PlainBody]]
    /\ UNCHANGED <<rateLimiter, ret>>

NextBodies ==
    \/ \E ep \in {"api", "login"} : Begin(1, ep)
    \/ \E k \in CycleIds, pr \in IssueProfiles : RefreshSucceeds(k, pr)
    \/ \E k \in CycleIds, why \in RefreshFailures : RefreshFails(k, why)
    \/ Resume(1)
    \/ FetchFails(1, FailedToFetch)
    \/ \E status \in BodyStatuses, body \in Bodies : ResponseArrives(1, status, body)
    \/ Return(1)
    \/ Tick

SpecBodies == Init /\ [][NextBodies]_vars

(* ------------------------- a call that is answered --------------------- *)
\* One call at a time whose history is not recorded, so that nothing bounds
\* the dispatches it makes.  Every network call is answered in the end (a
\* response or a failure), and a continuation that can run does run.
Unrecorded == CHOOSE c \in Callers : c \notin Observed

NetworkAnswers ==
    \/ \E k \in CycleIds, pr \in IssueProfiles : RefreshSucceeds(k, pr)
    \/ \E k \in CycleIds, why \in RefreshFailures : RefreshFails(k, why)
    \/ FetchFails(Unrecorded, FailedToFetch)
    \/ \E status \in Statuses : FetchResponse(Unrecorded, status, PlainBody)
    \/ Fetch401(Unrecorded)

FairNext ==
    \/ \E ep \in {"api", "login"} : Begin(Unrecorded, ep)
    \/ NetworkAnswers
    \/ Resume(Unrecorded)
    \/ Return(Unrecorded)
    \/ Logout
    \/ Tick

SpecFair ==
    /\ Init
    /\ [][FairNext]_vars
    /\ WF_vars(NetworkAnswers)
    /\ WF_vars(Resume(Unrecorded))

(* --------------------------- AuthProvider calls ------------------------- *)
\* The calls of request with a record of what AuthProvider did last: call
\* is the logout, or the login or register that stored its tokens last, with
\* the calls of the refresh endpoint in flight at that moment and the store
\* it left.
SessionStatuses == {200, 500}

\* part_002:255-259  AuthProvider.logout
LogoutCall ==
    /\ logout
    /\ call' = [fn |-> "logout"]
    /\ UNCHANGED <<rateLimiter, ret>>

\* api.ts:223-307 and part_002:193-207, 221-241  the response to a dispatch;
\* that of a login or register with an ok status ends in setTokens.
SessionResponse(c, status) ==
    /\ Responded(c, status, PlainBody)
    /\ call' = IF Ok(status) /\ endpoint[c] = "login"
               THEN [fn |-> "login", during |-> netRefresh, stored |-> store']
               ELSE call
    /\ UNCHANGED <<rateLimiter, ret>>

SessionNext ==
    \/ Begin(1, "api")
    \/ Begin(2, "login")
    \/ \E k \in CycleIds, pr \in IssueProfiles : RefreshSucceeds(k, pr)
    \/ \E k \in CycleIds, why \in RefreshFailures : RefreshFails(k, why)
    \/ \E c \in Callers : Resume(c)
    \/ \E c \in Callers, status \in SessionStatuses : SessionResponse(c, status)
    \/ \E c \in Callers : Fetch401(c)
    \/ \E c \in Callers : Return(c)
    \/ LogoutCall
    \/ Tick

SpecSession == Init /\ [][SessionNext]_vars

(* -------------------------- TokenStorage calls -------------------------- *)
StorageInit ==
    /\ now = 0
    /\ store \in InitStores
    /\ CallsIdle
    /\ LibIdle

\* jwt.ts:129-135  a call of TokenStorage.setTokens with the data of a
\* response; call keeps the store the call found and the call before it.
SetTokens(pr) ==
    /\ LET data == Issue(pr, now) IN
       store' = setTokens(data.access, data.refresh, data.expiresIn, now)
    /\ call' = [fn |-> "setTokens", before |-> store, prev |-> call.fn]
    /\ ret' = 0
    /\ UNCHANGED <<now, rateLimiter, callVars>>

\* jwt.ts:150-154  a call of TokenStorage.clearTokens
ClearTokens ==
    /\ store' = clearTokens(store)
    /\ call' = [fn |-> "clearTokens", before |-> store, prev |-> call.fn]
    /\ ret' = 0
    /\ UNCHANGED <<now, rateLimiter, callVars>>

\* jwt.ts:145-148  a call of TokenStorage.getTokenExpiry
GetTokenExpiry ==
    /\ call' = [fn |-> "getTokenExpiry", before |-> store, prev |-> call.fn]
    /\ ret' = getTokenExpiry(store)
    /\ UNCHANGED <<now, store, rateLimiter, callVars>>

\* Time passes between two calls.
StorageTick ==
    /\ now + TickMs <= MaxNow
    /\ now' = now + TickMs
    /\ UNCHANGED <<store, call, ret, rateLimiter, callVars>>

StorageNext ==
    \/ \E pr \in IssueProfiles : SetTokens(pr)
    \/ ClearTokens
    \/ GetTokenExpiry
    \/ StorageTick

SpecStorage == StorageInit /\ [][StorageNext]_vars

(* --------------------------- AuthProvider startup ---------------------- *)
\* jwt.ts:81-88  JWTUtils.isTokenValid, of a token that is present
isTokenValid(token, nowMs) ==
    IF ~decodeToken(token).ok THEN FALSE ELSE ~isTokenExpired(token, nowMs)

\* api.ts:113-116  ApiClient.isTokenValid
apiIsTokenValid(st, nowMs) ==
    IF st.access # NoToken THEN isTokenValid(st.access, nowMs) ELSE FALSE

\* localStorage.getItem('sa_services_user'): absent, the JSON of a user, or
\* a string JSON.parse rejects.
NoUser == "none"
StoredUsers == {NoUser, "user", "not JSON"}

\* part_002:140-175  checkStoredAuth: what it leaves of the stored user and
\* of the store, and the user and isLoading of the provider after it.
checkStoredAuth(storedUser, st, nowMs) ==
    LET kept == [storedUser |-> storedUser, store |-> st, isLoading |-> FALSE]
        cleared == [storedUser |-> NoUser, store |-> clearTokens(st), isLoading |-> FALSE]
    IN
    IF storedUser # NoUser /\ st.access # NoToken /\ st.refresh # NoToken
    THEN IF storedUser = "not JSON"
         THEN [user |-> FALSE] @@ cleared
         ELSE IF apiIsTokenValid(st, nowMs) THEN [user |-> TRUE] @@ kept
         ELSE IF ~isAccessTokenExpiringSoon(st, 0, nowMs) THEN [user |-> TRUE] @@ kept
         ELSE [user |-> TRUE] @@ cleared
    ELSE [user |-> FALSE] @@ kept

\* What the application finds stored when it starts: the tokens of an
\* earlier login, whose access token may also carry no exp.
StartupProfiles ==
    IssueProfiles \cup
    { [aShape |-> [WellFormed EXCEPT !.hasExp = FALSE], aLife |-> 600,
       rShape |-> WellFormed, rLife |-> 700, expiresIn |-> 600] }

StartupInit ==
    /\ now = 0
    /\ store \in {EmptyStore} \cup
                 { setTokens(Issue(pr, 0).access, Issue(pr, 0).refresh, pr.expiresIn, 0) :
                     pr \in StartupProfiles }
    /\ CallsIdle
    /\ LibIdle

\* part_002:139-177  the provider mounts and runs checkStoredAuth; call
\* keeps what it found stored and when.
CheckStoredAuth(storedUser) ==
    /\ LET r == checkStoredAuth(storedUser, store, now) IN
       /\ store' = r.store
       /\ ret' = [user |-> r.user, storedUser |-> r.storedUser, isLoading |-> r.isLoading]
    /\ call' = [fn |-> "checkStoredAuth", storedUser |-> storedUser, before |-> store,
                at |-> now]
    /\ UNCHANGED <<now, rateLimiter, callVars>>

StartupNext ==
    \/ \E storedUser \in StoredUsers : CheckStoredAuth(storedUser)
    \/ \E pr \in StartupProfiles : SetTokens(pr)
    \/ StorageTick

SpecStartup == StartupInit /\ [][StartupNext]_vars

(* ---------------------------- JWTUtils calls --------------------------- *)
\* The strings the functions of JWTUtils are called with, by what decodeToken
\* finds in them: 1 to 4 segments; a middle segment that atob rejects, or
\* that atob decodes to something JSON.parse rejects, or to JSON without
\* exp, or to JSON with exp.
TokenShapes ==
    { sh \in [segs : 1..4, b64 : BOOLEAN, json : BOOLEAN, hasExp : BOOLEAN] :
        (sh.json => sh.b64) /\ (sh.hasExp => sh.json) }

CodecExps == {0, 359, 360, 659, 660}
CodecTokens == { MkToken(sh, exp, "access") : sh \in TokenShapes, exp \in CodecExps }
CodecTimes == {0, TickMs, TickMs + 999}
CodecMinutes == {0, RefreshThresholdMinutes}

CodecInit ==
    /\ now \in CodecTimes
    /\ LibIdle
    /\ ApiIdle

\* jwt.ts:26-40  a call of JWTUtils.decodeToken(token)
DecodeToken(token) ==
    /\ call' = [fn |-> "decodeToken", token |-> token, minutes |-> 0]
    /\ ret' = decodeToken(token)
    /\ UNCHANGED <<now, rateLimiter, apiVars>>

\* jwt.ts:45-51  a call of JWTUtils.isTokenExpired(token)
IsTokenExpired(token) ==
    /\ call' = [fn |-> "isTokenExpired", token |-> token, minutes |-> 0]
    /\ ret' = isTokenExpired(token, now)
    /\ UNCHANGED <<now, rateLimiter, apiVars>>

\* jwt.ts:56-65  a call of JWTUtils.isTokenExpiringSoon(token, minutes)
IsTokenExpiringSoon(token, minutes) ==
    /\ call' = [fn |-> "isTokenExpiringSoon", token |-> token, minutes |-> minutes]
    /\ ret' = isTokenExpiringSoon(token, minutes, now)
    /\ UNCHANGED <<now, rateLimiter, apiVars>>

CodecNext ==
    \/ \E token \in CodecTokens : DecodeToken(token)
    \/ \E token \in CodecTokens : IsTokenExpired(token)
    \/ \E token \in CodecTokens, minutes \in CodecMinutes : IsTokenExpiringSoon(token, minutes)

SpecCodec == CodecInit /\ [][CodecNext]_vars

(* --------------------------- RateLimiter calls -------------------------- *)
MaxBlocks == 1

\* The time that passes between two calls: half the window, just more than
\* the window, just less than the block duration, the block duration.
AdvanceSteps(rl) ==
    {rl.windowMs \div 2, rl.windowMs + 1, rl.blockDurationMs - 1, rl.blockDurationMs}

LimiterInit ==
    /\ now = 0
    /\ rateLimiter \in Limiters
    /\ call = NoCall
    /\ ret = 0
    /\ ApiIdle

\* security.ts:161-198  a call of isAllowed(identifier); call keeps the entry
\* the call found.
IsAllowed(identifier) ==
    /\ LET r == isAllowed(rateLimiter, identifier, now) IN
       /\ rateLimiter' = r.rl
       /\ ret' = r.ret
    /\ call' = [fn |-> "isAllowed", identifier |-> identifier,
                before |-> rateLimiter.attempts[identifier]]
    /\ UNCHANGED <<now, apiVars>>

\* security.ts:203-209  a call of getBlockedTimeRemaining(identifier); call
\* keeps the entry the call found and whether it follows at once an
\* isAllowed of the identifier that returned false.
GetBlockedTimeRemaining(identifier) ==
    /\ ret' = getBlockedTimeRemaining(rateLimiter, identifier, now)
    /\ call' = [fn |-> "getBlockedTimeRemaining", identifier |-> identifier,
                before |-> rateLimiter.attempts[identifier],
                denied |-> IF call.fn = "isAllowed" THEN call.identifier = identifier /\ ~ret
                           ELSE call.fn = "getBlockedTimeRemaining"
                                    /\ call.identifier = identifier /\ call.denied]
    /\ UNCHANGED <<now, rateLimiter, apiVars>>

\* Time passes; the value the last call returned has been used by then.
Advance(d) ==
    /\ now + d <= rateLimiter.windowMs + MaxBlocks * rateLimiter.blockDurationMs
    /\ now' = now + d
    /\ call' = NoCall
    /\ ret' = 0
    /\ UNCHANGED <<rateLimiter, apiVars>>

LimiterNext ==
    \/ \E identifier \in Identifiers : IsAllowed(identifier)
    \/ \E identifier \in Identifiers : GetBlockedTimeRemaining(identifier)
    \/ \E d \in AdvanceSteps(rateLimiter) : Advance(d)

SpecLimiter == LimiterInit /\ [][LimiterNext]_vars

(* ------------------------------ useSecureForm -------------------------- *)
\* DemoButton.tsx:72-77  the form state of the hook; errors is "none" for {},
\* or names what the errors are about.
FormIdle == [isSubmitting |-> FALSE, errors |-> "none", isBlocked |-> FALSE, blockTimeRemaining |-> 0]

\* Mutant: validateAndSubmit that goes on after a denial.
validateAndSubmitGoesOn(rl, formState, identifier, valid, nowMs) ==
    LET r == isAllowed(rl, identifier, nowMs)
        reset == [formState EXCEPT !.errors = "none"]
        denied == [reset EXCEPT !.isBlocked = TRUE,
                                !.blockTimeRemaining = getBlockedTimeRemaining(r.rl, identifier, nowMs),
                                !.errors = "submit"]
        st == IF r.ret THEN reset ELSE denied
    IN
    IF ~valid
    THEN [rl |-> r.rl, allowed |-> r.ret, validated |-> TRUE, invoked |-> FALSE,
          formState |-> [st EXCEPT !.isSubmitting = FALSE, !.errors = "fields"]]
    ELSE [rl |-> r.rl, allowed |-> r.ret, validated |-> TRUE, invoked |-> TRUE,
          formState |-> [st EXCEPT !.isSubmitting = TRUE]]

\* DemoButton.tsx:79-105, 123-138  validateAndSubmit with a rate limiter, up
\* to its await of onSubmit: data passes the schema (valid) or does not.
validateAndSubmit(rl, formState, identifier, valid, nowMs) ==
    LET r == isAllowed(rl, identifier, nowMs)
        reset == [formState EXCEPT !.errors = "none"]
    IN
    IF ~r.ret
    THEN [rl |-> r.rl, allowed |-> FALSE, validated |-> FALSE, invoked |-> FALSE,
          formState |-> [reset EXCEPT !.isBlocked = TRUE,
                                      !.blockTimeRemaining = getBlockedTimeRemaining(r.rl, identifier, nowMs),
                                      !.errors = "submit"]]
    ELSE IF ~valid
    THEN [rl |-> r.rl, allowed |-> TRUE, validated |-> TRUE, invoked |-> FALSE,
          formState |-> [reset EXCEPT !.isSubmitting = FALSE, !.errors = "fields"]]
    ELSE [rl |-> r.rl, allowed |-> TRUE, validated |-> TRUE, invoked |-> TRUE,
          formState |-> [reset EXCEPT !.isSubmitting = TRUE]]

\* The calls of onSubmit that may be awaited at a time.
MaxPending == 1

\* No call of validateAndSubmit yet: onSubmit was invoked for no identifier
\* and nothing is awaited.
NoSubmit ==
    [fn |-> "none", identifier |-> "", allowed |-> FALSE, validated |-> FALSE, invoked |-> FALSE,
     before |-> NoEntry, onSubmit |-> [i \in Identifiers |-> 0], pending |-> 0]

\* Auth.tsx:33-36  the login form: useSecureForm with loginRateLimiter.
FormInit ==
    /\ now = 0
    /\ rateLimiter = loginRateLimiter
    /\ call = NoSubmit
    /\ ret = FormIdle
    /\ ApiIdle

\* DemoButton.tsx:79-127  a call of validateAndSubmit(data) of the form of
\* the identifier, up to its await.  ret is the form state; call keeps the
\* entry the call found, how many times onSubmit was invoked for each
\* identifier since its entry was created or reset, and how many of these
\* calls are awaited.
ValidateAndSubmit(identifier, valid) ==
    LET r == validateAndSubmit(rateLimiter, ret, identifier, valid, now)
        fresh == r.allowed /\ r.rl.attempts[identifier].count = 1
        since == IF fresh THEN 0 ELSE call.onSubmit[identifier]
        n == IF r.invoked THEN 1 ELSE 0
    IN
    /\ call.pending + n <= MaxPending
    /\ rateLimiter' = r.rl
    /\ ret' = r.formState
    /\ call' = [fn |-> "validateAndSubmit", identifier |-> identifier,
                allowed |-> r.allowed, validated |-> r.validated, invoked |-> r.invoked,
                before |-> rateLimiter.attempts[identifier],
                onSubmit |-> [call.onSubmit EXCEPT ![identifier] = since + n],
                pending |-> call.pending + n]
    /\ UNCHANGED <<now, apiVars>>

\* DemoButton.tsx:112-151  onSubmit has settled and validateAndSubmit goes
\* on after its await: fulfilled, or rejected with an error that is not a
\* ZodError.
OnSubmitSettles(fulfilled) ==
    /\ call.pending > 0
    /\ ret' = IF fulfilled
              THEN [ret EXCEPT !.isSubmitting = FALSE, !.isBlocked = FALSE, !.blockTimeRemaining = 0]
              ELSE [ret EXCEPT !.isSubmitting = FALSE, !.errors = "submit"]
    /\ call' = [call EXCEPT !.fn = "onSubmit", !.pending = @ - 1,
                            !.allowed = FALSE, !.validated = FALSE, !.invoked = FALSE,
                            !.before = NoEntry]
    /\ UNCHANGED <<now, rateLimiter, apiVars>>

\* The time that passes between two submissions: just more than the
\* window, the block duration.  Submissions at the same time are the ones
\* within one window.
FormSteps(rl) == {rl.windowMs + 1, rl.blockDurationMs}

\* Time passes between two submissions of the form.
FormAdvance(d) ==
    /\ now + d <= rateLimiter.windowMs + MaxBlocks * rateLimiter.blockDurationMs
    /\ now' = now + d
    /\ UNCHANGED <<rateLimiter, call, ret, apiVars>>

FormNext ==
    \/ \E identifier \in Identifiers, valid \in BOOLEAN : ValidateAndSubmit(identifier, valid)
    \/ \E fulfilled \in BOOLEAN : OnSubmitSettles(fulfilled)
    \/ \E d \in FormSteps(rateLimiter) : FormAdvance(d)

SpecForm == FormInit /\ [][FormNext]_vars

TypeOK ==
    /\ now \in 0..MaxNow
    /\ refreshPromise \in {0} \cup CycleIds
    /\ netRefresh \subseteq CycleIds
    /\ \A c \in Callers : pc[c] \in {"idle", "awaitRefresh", "fetch", "done"}

(* ------------------------------ claims --------------------------------- *)
Settled == {"fulfilled", "rejected"}

\* c enters request while the stored access token is Expired.
C1_Enters(c) == pc[c] = "idle" /\ pc'[c] # "idle" /\ TokenState(store.access, now) = "Expired"

\* c awaits the refresh in flight and sends nothing itself.
C1_Joins(c) ==
    /\ promises[refreshPromise].state = "pending"
    /\ pc'[c] = "awaitRefresh" /\ awaiting'[c] = refreshPromise
    /\ refreshPromise' = refreshPromise /\ netRefresh' = netRefresh /\ promises' = promises

\* c starts a refresh, and one call of the refresh endpoint is sent.
C1_StartsOne(c) ==
    /\ pc'[c] = "awaitRefresh" /\ awaiting'[c] # 0 /\ refreshPromise' = awaiting'[c]
    /\ netRefresh = {} /\ netRefresh' = {awaiting'[c]}

\* A call that awaited the refresh for its token takes the outcome of the
\* promise: its value as bearer, or SessionExpired.
C1_Resolves(c) ==
    (pc[c] = "awaitRefresh" /\ site[c] = "proactive" /\ pc'[c] # "awaitRefresh") =>
        LET p == promises[awaiting[c]] IN
        IF p.state = "fulfilled"
        THEN pc'[c] = "fetch" /\ bearer'[c] = LogToken(c, p.value)
        ELSE p.state = "rejected" /\ pc'[c] = "done" /\ result'[c] = "SessionExpired"

\* A settled promise keeps its outcome as long as a call awaits it.
C1_Stable ==
    \A k \in CycleIds :
        (promises[k].state \in Settled /\ \E c \in Callers : awaiting'[c] = k) => promises'[k] = promises[k]

\* C1 as stated: calls that enter while the stored access token is Expired
\* cause exactly one call of the refresh endpoint (the first starts it, the
\* others join it) and all take the outcome of that one refresh.
C1_ExactlyOneRefreshCall ==
    [][ /\ \A c \in Callers :
             C1_Enters(c) => IF refreshPromise # 0 THEN C1_Joins(c) ELSE C1_StartsOne(c)
        /\ \A c \in Callers : C1_Resolves(c)
        /\ C1_Stable ]_vars

\* C1 as amended: the same, provided the stored refresh token is not expired
\* when the first call enters.
C1_SingleFlightAcquire ==
    [][ /\ \A c \in Callers :
             C1_Enters(c) =>
                 IF refreshPromise # 0 THEN C1_Joins(c)
                 ELSE TokenState(store.refresh, now) \in {"Valid", "ExpiringSoon"} => C1_StartsOne(c)
        /\ \A c \in Callers : C1_Resolves(c)
        /\ C1_Stable ]_vars

\* Two calls await the same refresh, the recorded one having entered with an
\* Expired token, and the refresh has come back with a token.
C1_Witness ==
    /\ trace[1] = <<"Expired", "join">>
    /\ awaiting[2] = awaiting[1]
    /\ promises[awaiting[1]].state = "fulfilled"

\* C2: at most one call of the refresh endpoint is outstanding; it is the one
\* refreshPromise stands for, and every call that awaits a pending refresh
\* awaits that one.
C2_AtMostOneRefreshInFlight ==
    /\ Cardinality(netRefresh) <= 1
    /\ Cardinality({k \in CycleIds : promises[k].state = "pending"}) <= 1
    /\ \A k \in netRefresh : refreshPromise = k /\ promises[k].state = "pending" /\ promises[k].net = 1
    /\ \A c \in Callers :
         (pc[c] = "awaitRefresh" /\ promises[awaiting[c]].state = "pending") => awaiting[c] \in netRefresh

\* A call rejected with 401 and a call with an expiring token await the same
\* outstanding refresh.
C2_Witness ==
    /\ awaiting[1] = awaiting[2] /\ awaiting[1] \in netRefresh
    /\ site[1] = "retry" /\ site[2] = "proactive"

\* C3: one call of request dispatches at most twice (original and one retry).
C3_AtMostOneRetry == \A c \in Observed : Count(trace[c], "send") <= 2

\* The refresh calls a recorded call has made or joined.
RefreshCalls(c) == Count(trace[c], "start") + Count(trace[c], "join") + Count(trace[c], "startfail")

\* C4: a call that entered with a Valid token, got one 401 and succeeded has
\* dispatched exactly twice and has called refresh exactly once.
C4_OneRefreshOneRetry ==
    \A c \in Observed :
        (pc[c] = "done" /\ result[c] = "Success" /\ trace[c][1] = "Valid" /\ Count(trace[c], "r401") = 1)
            => Count(trace[c], "send") = 2 /\ RefreshCalls(c) = 1

\* C5: the refresh a call awaits after a 401 has failed: the call ends with
\* SessionExpired, the store is empty then, and nothing more is dispatched
\* or sent to the refresh endpoint.
C5_RefreshFailureEndsSession ==
    [][ \A c \in Callers :
          (pc[c] = "awaitRefresh" /\ site[c] = "retry" /\ promises[awaiting[c]].state = "rejected"
             /\ pc'[c] # "awaitRefresh")
          => /\ store' = EmptyStore
             /\ pc'[c] = "done" /\ result'[c] = "SessionExpired"
             /\ netRefresh' = netRefresh
             /\ Count(trace'[c], "send") = Count(trace[c], "send") ]_vars

\* The recorded call got a 401, its refresh failed and it ended with
\* SessionExpired over an empty store.
C5_Witness ==
    /\ pc[1] = "done" /\ result[1] = "SessionExpired"
    /\ Count(trace[1], "r401") = 1 /\ Count(trace[1], "start") = 1 /\ Count(trace[1], "refreshfailed") = 1
    /\ store = EmptyStore

C7_RefreshReplacesTriple ==
    [][ /\ \A k \in CycleIds :
             (promises[k].state = "pending" /\ promises'[k].state = "fulfilled")
                 => \E pr \in IssueProfiles :
                       LET data == Issue(pr, now) IN
                       /\ store'.access = data.access
                       /\ store'.refresh = data.refresh
                       /\ getTokenExpiry(store') = now + data.expiresIn * 1000
                       /\ promises'[k].value = data.access
        /\ \A c \in Callers :
             (pc[c] = "awaitRefresh" /\ site[c] = "proactive"
                /\ promises[awaiting[c]].state = "fulfilled" /\ pc'[c] # "awaitRefresh")
                 => pc'[c] = "fetch" /\ bearer'[c] = LogToken(c, promises[awaiting[c]].value) ]_vars

\* A refresh has succeeded after the clock moved: the store holds its triple.
C7_Witness ==
    /\ now > 0
    /\ \E k \in CycleIds : promises[k].state = "fulfilled" /\ promises[k].value = store.access
    /\ getTokenExpiry(store) > now

\* C8: a refresh started while the stored refresh token is expired makes no
\* call of the refresh endpoint: its promise is rejected at once and the
\* store is empty; the calls that await it end with SessionExpired.
C8_ExpiredRefreshTokenNoCall ==
    [][ /\ \A k \in CycleIds :
             (promises[k].state = "none" /\ promises'[k].state # "none"
                /\ TokenState(store.refresh, now) = "Expired")
                 => /\ promises'[k].state = "rejected" /\ promises'[k].net = 0
                    /\ netRefresh' = netRefresh
                    /\ store' = EmptyStore
        /\ \A c \in Callers :
             (pc[c] = "awaitRefresh" /\ promises[awaiting[c]].net = 0 /\ pc'[c] # "awaitRefresh")
                 => result'[c] = "SessionExpired" /\ store' = EmptyStore /\ netRefresh' = netRefresh ]_vars

\* A refresh was started with an expired refresh token: rejected, no call.
C8_Witness ==
    /\ refreshPromise # 0
    /\ promises[refreshPromise].state = "rejected" /\ promises[refreshPromise].net = 0
    /\ store = EmptyStore

\* C9: refreshPromise is set only while the call that started the refresh
\* still awaits it: once that call has gone on, after success or failure,
\* refreshPromise is null; a refresh makes at most one call of the endpoint.
C9_MarkerClearedOnSettle ==
    /\ refreshPromise # 0 =>
          LET o == promises[refreshPromise].owner IN
          o \in Callers /\ pc[o] = "awaitRefresh" /\ awaiting[o] = refreshPromise
    /\ \A k \in CycleIds : promises[k].net <= 1
    /\ netRefresh \subseteq {refreshPromise}

\* A refresh failed without a call of the endpoint, its call has ended and
\* refreshPromise is null again.
C9_Witness ==
    /\ pc[1] = "done" /\ refreshPromise = 0
    /\ trace[1] = <<"Expired", "startfail", "refreshfailed", "expired">>

\* C10: a call that enters while the stored access token is Valid dispatches
\* at once with that token as bearer, and no refresh is started or joined.
C10_ValidTokenNoRefresh ==
    [][ \A c \in Callers :
          (pc[c] = "idle" /\ pc'[c] # "idle" /\ TokenState(store.access, now) = "Valid")
          => /\ pc'[c] = "fetch" /\ bearer'[c] = LogToken(c, store.access)
             /\ netRefresh' = netRefresh /\ refreshPromise' = refreshPromise
             /\ promises' = promises /\ store' = store ]_vars

\* The recorded call was dispatched with the Valid stored token.
C10_Witness ==
    /\ pc[1] = "fetch" /\ trace[1] = <<"Valid", "valid", "send">>
    /\ bearer[1] = store.access /\ bearer[1] # NoToken

\* C11: a call that enters while no access token is stored is dispatched at
\* once without a bearer token, and no refresh is started or joined: the
\* credentials and the refresh in flight, if any, are left as they are.
C11_MissingTokenNoRefresh ==
    [][ \A c \in Callers :
          (pc[c] = "idle" /\ pc'[c] # "idle" /\ TokenState(store.access, now) = "Missing")
          => /\ pc'[c] = "fetch" /\ bearer'[c] = NoToken /\ awaiting'[c] = 0
             /\ c \in Observed => trace'[c] = <<"Missing", "missing", "send">>
             /\ netRefresh' = netRefresh /\ refreshPromise' = refreshPromise
             /\ promises' = promises /\ store' = store ]_vars

\* The recorded call was dispatched without a bearer token while the other
\* call's refresh was in flight and a logout had emptied the store.
C11_Witness ==
    /\ pc[1] = "fetch" /\ trace[1] = <<"Missing", "missing", "send">>
    /\ bearer[1] = NoToken /\ store.access = NoToken
    /\ netRefresh # {}

\* The times at which a response can have been received.
ResponseTimes == {k * TickMs : k \in 0..MaxTicks}

\* st holds the access token, the refresh token and the expiry of the
\* response data, received at time t.
HoldsResponse(st, data, t) ==
    /\ st.access = data.access /\ st.access # NoToken
    /\ st.refresh = data.refresh /\ st.refresh # NoToken
    /\ st.expiry # <<>> /\ getTokenExpiry(st) = t + data.expiresIn * 1000

\* C12: the three stored fields are all absent or all present, and when
\* present they are those of one login or refresh response.
C12_StoreAllOrNone ==
    /\ (store.access = NoToken) = (store.refresh = NoToken)
    /\ (store.access = NoToken) = (store.expiry = <<>>)
    /\ store.access # NoToken =>
          \E pr \in IssueProfiles, t \in ResponseTimes : HoldsResponse(store, Issue(pr, t), t)

\* After the clock moved, the store holds the triple of a refresh response
\* just received, and a login of the other caller has succeeded.
C12_Witness ==
    /\ now > 0
    /\ \E k \in CycleIds, pr \in IssueProfiles :
          /\ promises[k].state = "fulfilled" /\ promises[k].value = store.access
          /\ HoldsResponse(store, Issue(pr, now), now)
    /\ pc[2] = "done" /\ endpoint[2] = "login" /\ result[2] = "Success"

\* c dispatches: the bearer token, if any, is attached in this step.
Dispatches(c) == pc[c] # "fetch" /\ pc'[c] = "fetch"

\* The token is expired on the client's clock.
KnownExpired(token, nowMs) == token # NoToken /\ TokenState(token, nowMs) = "Expired"

C14_BroadcastIffSessionExpired ==
    /\ [](\A c \in Callers :
            tokenExpired[c] = (IF pc[c] = "done" /\ result[c] = "SessionExpired" THEN 1 ELSE 0))
    /\ [][ \A c \in Callers :
             (result[c] # "SessionExpired" /\ result'[c] = "SessionExpired")
                 => tokenExpired'[c] = tokenExpired[c] + 1 /\ store' = EmptyStore ]_vars

\* One call has ended with SessionExpired after a failed refresh and has
\* dispatched the event; the other has ended with a network error and has
\* dispatched none.
C14_Witness ==
    /\ pc[1] = "done" /\ result[1] = "SessionExpired" /\ tokenExpired[1] = 1
    /\ Count(trace[1], "refreshfailed") = 1
    /\ pc[2] = "done" /\ result[2] = NetworkErrorMessage /\ tokenExpired[2] = 0
    /\ store = EmptyStore

\* The limiter of the example of C15.
C15_Example(rl) == rl.maxAttempts = 5 /\ rl.windowMs = 900000 /\ rl.blockDurationMs = 1800000

\* C15: a first call for an identifier is allowed and counts 1; while the
\* window that call opened lasts, each further call is counted, allowed up
\* to maxAttempts calls, and the call after them is denied and sets blocked;
\* with 5 / 900000 / 1800000, a call made blockMs or more after the denied
\* call is allowed and leaves count 1, not blocked.
C15_AllowsMaxAttemptsThenBlocks ==
    [][ \A i \in Identifiers :
          (call'.fn = "isAllowed" /\ call'.identifier = i) =>
              LET e == rateLimiter.attempts[i]
                  f == rateLimiter'.attempts[i]
              IN
              /\ call'.before = e
              /\ e = NoEntry => ret' = TRUE /\ f.count = 1 /\ ~f.blocked
              /\ (e # NoEntry /\ ~e.blocked /\ now - e.windowStart <= rateLimiter.windowMs) =>
                    /\ f.count = e.count + 1
                    /\ ret' = (e.count < rateLimiter.maxAttempts)
                    /\ f.blocked = (e.count >= rateLimiter.maxAttempts)
              /\ (C15_Example(rateLimiter) /\ e.blocked
                     /\ now - e.lastAttempt >= rateLimiter.blockDurationMs) =>
                    ret' = TRUE /\ f.count = 1 /\ ~f.blocked ]_vars

\* With 5 / 900000 / 1800000: the sixth call in the window was denied, and
\* the call made 30 minutes later has been allowed and counts 1.
C15_Witness ==
    /\ C15_Example(rateLimiter)
    /\ call.fn = "isAllowed" /\ ret = TRUE
    /\ call.before.blocked /\ call.before.count = 6
    /\ call.before.lastAttempt = call.before.windowStart + 900000
    /\ now = call.before.lastAttempt + 1800000
    /\ rateLimiter.attempts[call.identifier].count = 1
    /\ ~rateLimiter.attempts[call.identifier].blocked

\* C16: getBlockedTimeRemaining returns 0 for an identifier that was never
\* blocked or whose block duration has elapsed, and while the block lasts
\* the positive number ceil((blockMs - time since the last attempt) / 60000);
\* it never returns a negative number.
C16_BlockedTimeRemainingNeverNegative ==
    call.fn = "getBlockedTimeRemaining" =>
        LET e == rateLimiter.attempts[call.identifier]
            elapsed == now - e.lastAttempt
        IN
        /\ ret >= 0
        /\ (e = NoEntry \/ ~e.blocked \/ elapsed >= rateLimiter.blockDurationMs) => ret = 0
        /\ (e.blocked /\ elapsed < rateLimiter.blockDurationMs) =>
              ret > 0 /\ ret = Ceil(rateLimiter.blockDurationMs - elapsed, 60000)

\* The token is malformed: not three segments, or a middle segment that is
\* not base64, or that does not decode to JSON.
Malformed(token) == token.segs # 3 \/ ~token.b64 \/ ~token.json

\* C17: for a malformed token decodeToken returns null, and isTokenExpired
\* and isTokenExpiringSoon return true.
C17_MalformedTokenFailsClosed ==
    (call.fn # "none" /\ Malformed(call.token)) =>
        /\ call.fn = "decodeToken" => ret = [ok |-> FALSE, exp |-> Undefined]
        /\ call.fn = "isTokenExpired" => ret = TRUE
        /\ call.fn = "isTokenExpiringSoon" => ret = TRUE

\* isTokenExpired has returned true for a token of three segments whose
\* middle segment is base64 but not JSON.
C17_Witness ==
    /\ call.fn = "isTokenExpired" /\ ret = TRUE
    /\ call.token.segs = 3 /\ call.token.b64 /\ ~call.token.json

\* The error kinds of spec.md section 7 for the messages of api.ts:272-301.
ErrorKind(message) ==
    CASE message \in {"Invalid request. Please check your input and try again.",
                      "Validation failed. Please check your input and try again."} -> "Validation"
      [] message = "Access denied. You do not have permission to perform this action." -> "Forbidden"
      [] message = "The requested resource was not found." -> "NotFound"
      [] message = "A conflict occurred. This email may already be registered." -> "Conflict"
      [] message = "Too many requests. Please wait a moment and try again." -> "RateLimited"
      [] message \in {"Server error. Please try again later.",
                      "Service temporarily unavailable. Please try again later."} -> "ServerUnavailable"
      [] OTHER -> "Unknown"

\* The error kind C18 gives for a status.
C18_Kind(status) ==
    CASE status \in {400, 422} -> "Validation"
      [] status = 403 -> "Forbidden"
      [] status = 404 -> "NotFound"
      [] status = 409 -> "Conflict"
      [] status = 429 -> "RateLimited"
      [] status >= 500 /\ status <= 599 -> "ServerUnavailable"
      [] OTHER -> "Unknown"

\* The last entry of the history of the recorded call.
LastEvent == IF trace[1] = <<>> THEN "" ELSE trace[1][Len(trace[1])]

\* C18: a call that ended on a response with status 400, 403, 404, 409,
\* 422, 429 or 5xx raises the error of the kind of that status when the body
\* has no message, and the message of the body when it has one.
C18_CanonicalErrorForStatus ==
    \A status \in AllStatuses :
        (pc[1] = "done" /\ C18_Kind(status) # "Unknown") =>
            /\ LastEvent = ResponseEvent(status, PlainBody) => ErrorKind(result[1]) = C18_Kind(status)
            /\ \A body \in Bodies :
                  (body.message # "" /\ LastEvent = ResponseEvent(status, body))
                      => result[1] = body.message

\* C19: a call whose dispatch fails without a response ends with the
\* network error or the timeout error, which no response and no expired
\* session gives; the credentials and refreshPromise stay as they are and
\* no tokenExpired event is dispatched.
C19_TransportFailureOwnKind ==
    [][ \A c \in Observed :
          (pc[c] = "fetch" /\ pc'[c] = "done" /\ trace'[c] = trace[c] \o <<"neterr">>)
          => /\ result'[c] \in {NetworkErrorMessage, TimeoutMessage}
             /\ store' = store /\ refreshPromise' = refreshPromise
             /\ promises' = promises /\ netRefresh' = netRefresh
             /\ tokenExpired' = tokenExpired ]_vars

\* C20: clearTokens leaves the three fields absent, whatever the store held;
\* on an empty store, and so when called a second time, it changes nothing.
C20_ClearIsIdempotent ==
    [][ call'.fn = "clearTokens" /\ call' # call =>
          /\ store'.access = NoToken /\ store'.refresh = NoToken /\ store'.expiry = <<>>
          /\ getTokenExpiry(store') = getTokenExpiry(EmptyStore)
          /\ call'.before = EmptyStore => store' = call'.before
          /\ call'.prev = "clearTokens" => store' = store ]_vars

\* clearTokens has been called twice in a row: the second call found the
\* store empty and left it empty.
C20_Witness ==
    /\ call.fn = "clearTokens" /\ call.prev = "clearTokens"
    /\ call.before = EmptyStore /\ store = EmptyStore

\* C21: after a logout the store stays empty until a login or register
\* stores its tokens, whatever was in flight when the logout was made: as
\* long as the logout is the last thing AuthProvider did, nothing is stored.
C21_EmptyAfterLogout == call.fn = "logout" => store = EmptyStore

\* C22: when a call of the refresh endpoint settles, with success or with
\* failure, and the store holds the tokens of a login or register that
\* completed while that call was in flight, the store is left as it is.
C22_LoginSurvivesOlderRefresh ==
    [][ \A k \in CycleIds :
          (/\ promises[k].state = "pending" /\ promises'[k].state \in Settled
           /\ call.fn = "login" /\ k \in call.during /\ store = call.stored)
          => store' = store ]_vars

\* The step is the arrival of a 401 response at the recorded call c.
Gets401(c) ==
    /\ pc[c] = "fetch"
    /\ Len(trace'[c]) > Len(trace[c])
    /\ trace'[c][Len(trace[c]) + 1] = "r401"

\* C23: a 401 response arrives at a call whose bearer token is no longer the
\* stored one, another call's refresh having replaced it meanwhile (no login
\* and no logout was made, the stored access token is Valid, no refresh is
\* in flight): the call is dispatched again with the stored token, and no
\* call of the refresh endpoint is made.
C23_Late401UsesStoredToken ==
    [][ \A c \in Observed :
          (/\ Gets401(c)
           /\ call = NoCall
           /\ bearer[c] # NoToken /\ store.access # bearer[c]
           /\ TokenState(store.access, now) = "Valid"
           /\ netRefresh = {})
          => /\ netRefresh' = {}
             /\ pc'[c] = "fetch" /\ bearer'[c] = store.access ]_vars

\* C24: every call of request settles in the end, every network call being
\* answered in the end.
C24_EveryCallSettles == \A c \in Callers : (pc[c] # "idle") ~> (pc[c] = "done")

\* The state of the call state machine of spec.md section 4.4 after one more
\* entry e of the history of a call that was in state q.  The history has no
\* entry for the states themselves: the call resolves its token until it is
\* dispatched, a refresh after a 401 response is the retry, and whatever the
\* retry does to get its token belongs to the retry.
CallStep(q, e) ==
    CASE q = "Idle" -> "TokenResolving"
      [] q = "TokenResolving" /\ e = "missing" -> "Unauthenticated"
      [] q = "TokenResolving" /\ e \in {"valid", "refreshed"} -> "Authorized"
      [] q = "TokenResolving" /\ e = "expired" -> "Failed"
      [] q \in {"Unauthenticated", "Authorized"} /\ e = "send" -> "Dispatched"
      [] q = "Dispatched" /\ e = "r401" -> "Dispatched"
      [] q = "Dispatched" /\ e \in {"start", "join", "startfail"} -> "RetryingOnce"
      [] q = "Dispatched" /\ SubSeq(e, 1, 2) = "r2" -> "Success"
      [] q = "Dispatched" -> "Failed"
      [] q = "RetryingOnce" /\ e = "send" -> "Dispatched"
      [] q = "RetryingOnce" /\ e = "expired" -> "Failed"
      [] OTHER -> q

RECURSIVE CallState(_)
CallState(tr) ==
    IF tr = <<>> THEN "Idle"
    ELSE CallStep(CallState(SubSeq(tr, 1, Len(tr) - 1)), tr[Len(tr)])

\* The transitions of the call state machine; a retry whose refresh fails
\* is taken to be Failed.
CallEdges ==
    { <<"Idle", "TokenResolving">>,
      <<"TokenResolving", "Unauthenticated">>, <<"TokenResolving", "Authorized">>,
      <<"Unauthenticated", "Dispatched">>, <<"Authorized", "Dispatched">>,
      <<"Dispatched", "Success">>, <<"Dispatched", "Failed">>,
      <<"Dispatched", "RetryingOnce">>,
      <<"RetryingOnce", "Dispatched">>, <<"RetryingOnce", "Failed">> }

\* C25: the history of a recorded call is a path of the call state machine:
\* every change of state is one of its transitions, RetryingOnce is entered
\* at most once, and a call that has settled is in Success or Failed.
C25_TraceIsPathOfCallMachine ==
    \A c \in Observed :
        LET at(i) == CallState(SubSeq(trace[c], 1, i))
            n == Len(trace[c])
        IN /\ \A i \in 1..n : at(i) = at(i - 1) \/ <<at(i - 1), at(i)>> \in CallEdges
           /\ Cardinality({i \in 1..n : at(i) = "RetryingOnce" /\ at(i - 1) # "RetryingOnce"}) <= 1
           /\ pc[c] = "done" => at(n) \in {"Success", "Failed"}

\* A login or register gets its response and stores its tokens.
LoginCompletes ==
    \E c \in Callers :
        /\ pc[c] = "fetch" /\ endpoint[c] = "login"
        /\ pc'[c] = "done" /\ result'[c] = "Success"

\* C26: when the refresh a call awaits for its token, the stored one being
\* ExpiringSoon or Expired, has failed, the call ends with SessionExpired
\* and is not dispatched (a call that entered request this way has made no
\* dispatch at all), and the store is empty with no refresh in flight.  The
\* store stays so until a login or register completes, and a request that
\* begins meanwhile is dispatched at once without a bearer token and without
\* a refresh.
C26_FailedProactiveRefreshEndsSession ==
    [][ /\ \A c \in Callers :
             (pc[c] = "awaitRefresh" /\ site[c] = "proactive"
                /\ promises[awaiting[c]].state = "rejected" /\ pc'[c] # "awaitRefresh")
             => /\ pc'[c] = "done" /\ result'[c] = "SessionExpired"
                /\ Count(trace'[c], "send") = Count(trace[c], "send")
                /\ (c \in Observed /\ Len(trace[c]) = 2) =>
                       (trace[c][1] \in {"ExpiringSoon", "Expired"} /\ Count(trace'[c], "send") = 0)
                /\ store' = EmptyStore /\ netRefresh' = {}
        /\ (store = EmptyStore /\ netRefresh = {} /\ ~LoginCompletes)
             => /\ store' = EmptyStore /\ netRefresh' = {}
                /\ \A c \in Callers :
                     (pc[c] = "idle" /\ pc'[c] # "idle")
                     => pc'[c] = "fetch" /\ bearer'[c] = NoToken /\ awaiting'[c] = 0 ]_vars

\* The recorded call found its token ExpiringSoon, started the refresh, the
\* refresh failed and the call has ended with SessionExpired, undispatched;
\* the store is empty, no refresh is in flight and a request of the other
\* caller is under way.
C26_Witness ==
    /\ pc[1] = "done" /\ result[1] = "SessionExpired"
    /\ trace[1] = <<"ExpiringSoon", "start", "refreshfailed", "expired">>
    /\ store = EmptyStore /\ netRefresh = {}
    /\ pc[2] = "fetch"

\* The recorded call c was dispatched without a bearer token, the store
\* holding no access token when it entered request.
SentWithoutCredentials(c) == trace[c] = <<"Missing", "missing", "send">>

\* What C27 says of the 401 response to such a call: no call of the refresh
\* endpoint is made, tokenExpired is dispatched once and the call ends with
\* SessionExpired.
C27_EndsSession(c) ==
    /\ netRefresh' = netRefresh
    /\ pc'[c] = "done" /\ result'[c] = "SessionExpired"
    /\ tokenExpired'[c] = tokenExpired[c] + 1

\* C27 as stated: a call dispatched with no stored credentials that gets a
\* 401 response makes no refresh call, broadcasts and ends with
\* SessionExpired.
C27_NoCredentials401EndsSession ==
    [][ \A c \in Observed : (Gets401(c) /\ SentWithoutCredentials(c)) => C27_EndsSession(c) ]_vars

\* C27 as amended: the same, provided the store is still empty when the 401
\* response arrives.
C27_StillNoCredentials401EndsSession ==
    [][ \A c \in Observed :
          (Gets401(c) /\ SentWithoutCredentials(c) /\ store = EmptyStore) => C27_EndsSession(c) ]_vars

\* A login was dispatched with no stored credentials, got 401 and has ended
\* with SessionExpired and one broadcast, no refresh having been called.
C27_Witness ==
    /\ pc[1] = "done" /\ endpoint[1] = "login" /\ result[1] = "SessionExpired"
    /\ trace[1] = <<"Missing", "missing", "send", "r401", "expired">>
    /\ tokenExpired[1] = 1 /\ netRefresh = {}

\* C28: the window is fixed.  An isAllowed call that finds the identifier
\* not blocked, more than windowMs after the attempt that opened its window
\* (windowStart), is allowed and leaves count = 1 and blocked = false; so
\* no call sets blocked more than windowMs after the window was opened.
C28_WindowIsFixed ==
    (call.fn = "isAllowed" /\ call.before # NoEntry /\ ~call.before.blocked
        /\ now - call.before.windowStart > rateLimiter.windowMs)
    => LET entry == rateLimiter.attempts[call.identifier] IN
       ret = TRUE /\ entry.count = 1 /\ ~entry.blocked

\* C29: an isAllowed call made less than blockMs after the attempt that set
\* blocked is denied and leaves the entry as it was (count, last attempt,
\* blocked).  The last attempt of a blocked entry is therefore always the
\* attempt that set blocked: the block runs blockMs from that attempt,
\* however many attempts are denied meanwhile.
C29_DeniedCallLeavesEntry ==
    call.fn = "isAllowed" =>
        LET entry == rateLimiter.attempts[call.identifier] IN
        /\ (call.before.blocked /\ now - call.before.lastAttempt < rateLimiter.blockDurationMs)
              => ret = FALSE /\ entry = call.before
        /\ entry.blocked => (entry = call.before \/ (entry.lastAttempt = now /\ ret = FALSE))

\* An attempt made during the block, after the attempt that set blocked,
\* was denied.
C29_Witness ==
    /\ call.fn = "isAllowed" /\ call.before.blocked
    /\ now > call.before.lastAttempt
    /\ now - call.before.lastAttempt < rateLimiter.blockDurationMs
    /\ ret = FALSE

\* C30: an isAllowed call that finds the identifier blocked, blockMs or more
\* after the attempt that set blocked (the last attempt of the entry), is
\* allowed and leaves count = 1 and blocked = false.
C30_BlockedEntryResetsAfterBlock ==
    (call.fn = "isAllowed" /\ call.before.blocked
        /\ now - call.before.lastAttempt >= rateLimiter.blockDurationMs)
    => LET entry == rateLimiter.attempts[call.identifier] IN
       ret = TRUE /\ entry.count = 1 /\ ~entry.blocked

\* C31: the entry of an identifier changes only in an isAllowed call for
\* that identifier, and then either its count goes up by exactly 1 within
\* the same window, or the entry is reset (or made, for a new identifier)
\* to count = 1, blocked = false with the call allowed; a first attempt is
\* always of the second kind.  So the count never decreases between resets.
C31_CountMonotonicPerIdentifier ==
    [][ \A i \in Identifiers :
          LET e == rateLimiter.attempts[i]
              f == rateLimiter'.attempts[i]
          IN /\ f # e =>
                  /\ call'.fn = "isAllowed" /\ call'.identifier = i
                  /\ \/ f.count = e.count + 1 /\ f.windowStart = e.windowStart /\ e # NoEntry
                     \/ f.count = 1 /\ ~f.blocked /\ f.windowStart = now /\ ret' = TRUE
             /\ (e = NoEntry /\ call' # call /\ call'.fn = "isAllowed" /\ call'.identifier = i)
                  => f.count = 1 /\ ~f.blocked /\ ret' = TRUE ]_vars

\* A counted attempt of one identifier, the other having an entry too.
C31_Witness ==
    /\ call.fn = "isAllowed" /\ call.identifier = "a"
    /\ call.before.count >= 1
    /\ rateLimiter.attempts["a"].count = call.before.count + 1
    /\ rateLimiter.attempts["b"].count >= 2

\* C32: getBlockedTimeRemaining(identifier), called right after isAllowed
\* of the same identifier returned false and at the same time, returns a
\* whole number of minutes from 1 to ceil(blockMs / 60000).
C32_RemainingAfterDenialIsPositive ==
    [][ (/\ call.fn = "isAllowed" /\ ret = FALSE
         /\ call'.fn = "getBlockedTimeRemaining" /\ call'.identifier = call.identifier)
        => ret' \in 1..Ceil(rateLimiter.blockDurationMs, 60 * 1000) ]_vars

\* The remaining time was asked after a denial in the last millisecond of
\* the block, and it is 1.
C32_Witness ==
    /\ call.fn = "getBlockedTimeRemaining" /\ call.denied
    /\ call.before.blocked
    /\ now - call.before.lastAttempt = rateLimiter.blockDurationMs - 1
    /\ ret = 1

\* C33: every identifier that has an entry has count >= 1, and is blocked
\* if and only if its count exceeds maxAttempts.
C33_BlockedIffCountExceeds ==
    \A i \in Identifiers :
        LET entry == rateLimiter.attempts[i] IN
        entry # NoEntry =>
            /\ entry.count >= 1
            /\ entry.blocked <=> entry.count > rateLimiter.maxAttempts

\* After an isAllowed call that found one identifier blocked after its
\* block had elapsed and reset it, the other identifier being blocked.
C33_Witness ==
    /\ call.fn = "isAllowed" /\ call.before.blocked
    /\ rateLimiter.attempts[call.identifier].count = 1
    /\ \E i \in Identifiers : rateLimiter.attempts[i].blocked

\* The token has three segments and its middle segment decodes to JSON that
\* carries no exp claim.
WithoutExp(token) == token.segs = 3 /\ token.b64 /\ token.json /\ token.exp = Undefined

\* C34: isTokenExpired and isTokenExpiringSoon return true for a token
\* whose payload carries no exp claim.
C34_TokenWithoutExpFailsClosed ==
    (call.fn \in {"isTokenExpired", "isTokenExpiringSoon"} /\ WithoutExp(call.token)) => ret = TRUE

\* The token decodes to a payload that carries an exp claim.
WithExp(token) == token.segs = 3 /\ token.b64 /\ token.json /\ token.exp # Undefined

\* C35: for a decodable token with expiry exp at the time now in whole
\* seconds, isTokenExpired returns exp < now and isTokenExpiringSoon(minutes)
\* returns exp - now < minutes * 60; so a token with exp = now is not expired,
\* an expired token is expiring soon for every minutes >= 0, and
\* isTokenExpiringSoon is monotone in minutes.
C35_ExpiryArithmetic ==
    /\ (call.fn = "isTokenExpired" /\ WithExp(call.token))
            => ret = (call.token.exp < NowSec(now))
    /\ (call.fn = "isTokenExpiringSoon" /\ WithExp(call.token))
            => ret = (call.token.exp - NowSec(now) < call.minutes * 60)
    /\ \A token \in CodecTokens :
            WithExp(token) =>
                /\ token.exp = NowSec(now) => ~isTokenExpired(token, now)
                /\ \A m \in CodecMinutes :
                        isTokenExpired(token, now) => isTokenExpiringSoon(token, m, now)
                /\ \A m1, m2 \in CodecMinutes :
                        (m1 <= m2 /\ isTokenExpiringSoon(token, m1, now))
                            => isTokenExpiringSoon(token, m2, now)

\* isTokenExpired was called with a token whose expiry is the current second
\* and returned false.
C35_Witness ==
    /\ call.fn = "isTokenExpired" /\ WithExp(call.token)
    /\ now > 0 /\ call.token.exp = NowSec(now)
    /\ ret = FALSE

\* The message of the error response made up for a body that is not JSON.
ServerError(status) == "Server error (" \o ToString(status) \o ")"

\* C36: a response whose body cannot be parsed never ends the call with a
\* parse exception: with a status that is not a success and not 401 the call
\* raises the made-up error that carries the status, and with 401 it runs the
\* refresh-and-retry cycle (or ends the session when there is no usable
\* refresh token) as for any other 401.
C36_UnparseableBodyGivesStructuredError ==
    [][ (/\ pc[1] = "fetch" /\ pc'[1] # "fetch"
         /\ call'.fn = "response" /\ call'.body = NotJson
         /\ Len(trace'[1]) > Len(trace[1])
         /\ trace'[1][Len(trace[1]) + 1] \in {"r401", ResponseEvent(call'.status, NotJson)})
        => LET status == call'.status IN
           IF status = 401
           THEN IF store.refresh # NoToken /\ ~isTokenExpired(store.refresh, now)
                THEN /\ pc'[1] = "awaitRefresh" /\ site'[1] = "retry"
                     /\ awaiting'[1] = refreshPromise' /\ refreshPromise' # 0
                     /\ result'[1] = "none"
                ELSE pc'[1] = "done" /\ result'[1] = "SessionExpired"
           ELSE /\ pc'[1] = "done"
                /\ result'[1] = IF Ok(status) THEN "Success" ELSE ServerError(status) ]_vars

\* A 401 response with a body that is not JSON was followed by a refresh
\* and a retry, and the retry was answered 500 with a body that is not
\* JSON: the call raised the made-up error of that status.
C36_Witness ==
    /\ pc[1] = "done"
    /\ call.fn = "response" /\ call.status = 500 /\ call.body = NotJson
    /\ call.prev.status = 401 /\ call.prev.body = NotJson
    /\ Count(trace[1], "r401") = 1 /\ Count(trace[1], "refreshed") = 1
    /\ LastEvent = ResponseEvent(500, NotJson)
    /\ result[1] = ServerError(500)

\* C37: checkStoredAuth, run with a stored user and both tokens stored,
\* keeps the stored credentials when the access token is expired and the
\* refresh token is still valid; it clears them only when both tokens are
\* invalid; and after it the user is set only if the credentials are still
\* stored.
C37_StartupKeepsRefreshableSession ==
    (call.fn = "checkStoredAuth" /\ call.storedUser = "user"
        /\ call.before.access # NoToken /\ call.before.refresh # NoToken) =>
        LET accessValid == isTokenValid(call.before.access, call.at)
            refreshValid == isTokenValid(call.before.refresh, call.at)
            stillStored == ret.storedUser = call.storedUser /\ store = call.before
        IN /\ (~accessValid /\ refreshValid) => stillStored
           /\ ~stillStored => (~accessValid /\ ~refreshValid)
           /\ ret.user => stillStored

\* C38: with a rate limiter, onSubmit is invoked only in a validateAndSubmit
\* call in which isAllowed(identifier) returned true, so for each identifier
\* at most maxAttempts submissions reach onSubmit between two resets of its
\* limiter entry; a denied call runs neither the validation nor onSubmit, and
\* sets isBlocked.
C38_OnSubmitOnlyWhenAllowed ==
    [][ /\ \A i \in Identifiers :
             /\ call'.onSubmit[i] <= rateLimiter'.maxAttempts
             /\ call'.onSubmit[i] > call.onSubmit[i] =>
                    /\ call'.fn = "validateAndSubmit" /\ call'.identifier = i
                    /\ isAllowed(rateLimiter, i, now).ret
        /\ call'.pending > call.pending => call'.allowed /\ call'.invoked
        /\ \A i \in Identifiers, valid \in BOOLEAN :
             (ValidateAndSubmit(i, valid) /\ ~isAllowed(rateLimiter, i, now).ret) =>
                 /\ ~call'.validated /\ ~call'.invoked
                 /\ call'.onSubmit = call.onSubmit /\ call'.pending = call.pending
                 /\ ret'.isBlocked ]_vars

\* A call of validateAndSubmit with valid data was denied, after
\* maxAttempts submissions of the identifier reached onSubmit within the
\* window.
C38_Witness ==
    /\ call.fn = "validateAndSubmit" /\ ~call.allowed /\ ~call.before.blocked
    /\ call.onSubmit[call.identifier] = rateLimiter.maxAttempts
    /\ ret.isBlocked /\ ret.blockTimeRemaining > 0

====
